---- MODULE Spec2Model ----
(***************************************************************************)
(* Model of the GPS attendance bot (main_aiogram.py, database.py).         *)
(*                                                                         *)
(* Time is the Baku wall clock in whole seconds.  The clock only visits    *)
(* the instants of Instants; every comparison the code makes (hour against *)
(* a deadline, elapsed seconds against the location timeout and the        *)
(* minimum work duration) is computed on those seconds.                    *)
(*                                                                         *)
(* Handlers are coroutines: a handler runs without interruption up to an   *)
(* await, and other handlers may run while it is suspended.  The part of a *)
(* handler that runs after its replies were awaited is kept in inflight    *)
(* (attendance) or reg_inflight (registration) and executed later.         *)
(*                                                                         *)
(* Spec is the attendance engine (button presses, location updates, the    *)
(* administrator's activate/deactivate), SpecSqlite the same on the SQLite *)
(* backend only, SpecReg the registration dialogue.                        *)
(***************************************************************************)
EXTENDS Integers, Sequences, FiniteSets, TLC

VARIABLES now, cfg, users, users2, sessions, pending_action, inflight, ev, last_press,
          fsm_state, fsm_data, registrations, group_codes, reg_inflight, last_text,
          attendance, admin_state, admin_data,
          lock_file, lock_proc,
          GEOCODING_ENABLED, geo_clock, cache, rate_limiter, geo_task, geo_requests,
          fn_call, reminders

(* The variables of the bot's handlers and tables, of the start-up guard   *)
(* and of the geocoding client.                                            *)
bot_vars == <<now, cfg, users, users2, sessions, pending_action, inflight, ev, last_press,
              fsm_state, fsm_data, registrations, group_codes, reg_inflight, last_text,
              attendance, admin_state, admin_data>>

startup_vars == <<lock_file, lock_proc>>

geocoding_vars == <<GEOCODING_ENABLED, geo_clock, cache, rate_limiter, geo_task, geo_requests>>

(* The last call of one of the program's functions: its name, arguments    *)
(* and result.                                                             *)
library_vars == <<fn_call>>

(* The check-out reminders: one task for each check-in that went through.  *)
task_vars == <<reminders>>

vars == <<bot_vars, startup_vars, geocoding_vars, library_vars, task_vars>>

(* The variables of the attendance engine and those of the registration    *)
(* dialogue.                                                               *)
attendance_vars == <<users2, sessions, pending_action, inflight, last_press, attendance>>

(* last_text is the text of the last message a dialogue step received. *)
registration_vars == <<fsm_state, fsm_data, registrations, group_codes, reg_inflight, last_text>>

(* The administrator's dialogue: its state and its collected data. *)
admin_vars == <<admin_state, admin_data>>

(* ------------------------------ bounds --------------------------------- *)
MaxDay == 2
MaxInFlight == 1
MaxSessions == 2
MaxRegInFlight == 2

(* Chat 1 is the worker whose updates are handled.  Chat 2 is a colleague  *)
(* who checked in before the first instant and then stays silent.         *)
Chats == {1, 2}
Workers == {1}
Colleague == CHOOSE c \in Chats : c \notin Workers

(* --------------------------- program constants ------------------------- *)
LOCATION_TIMEOUT == 120
CHECKIN_DEADLINE_HOUR == 11
CHECKOUT_DEADLINE_HOUR == 19
MIN_WORK_DURATION_HOURS == 6
RADIUS_CLAMP_M == 300

HourSeconds == 60 * 60

DaySeconds == 24 * HourSeconds

(* Asia/Baku is UTC+4 all year. *)
BAKU_UTC_OFFSET_S == 4 * HourSeconds

(* Instants the clock visits (seconds after midnight, Baku).  The first    *)
(* day is visited at                                                       *)
(*   02:00:00  07:59:59  08:00:00  10:58:00  11:00:00  11:00:01            *)
(*   18:58:00  19:00:00                                                    *)
(* so that two instants are 120 s and 121 s apart, a press before a        *)
(* deadline can be followed by a location after it within the timeout, and *)
(* an instant lies exactly 6 h and 6 h minus 1 s after a possible check-in.*)
(* Later days are visited at 02:00:00, 10:58:00 and 18:58:00.              *)
FirstDayInstants == <<7200, 28799, 28800, 39480, 39600, 39601, 68280, 68400>>

LaterDayInstants == <<7200, 39480, 68280>>

Instants ==
    { DaySeconds + FirstDayInstants[i] : i \in 1..Len(FirstDayInstants) }
    \cup { d * DaySeconds + LaterDayInstants[i] : d \in 2..MaxDay, i \in 1..Len(LaterDayInstants) }

(* ------------------------------ geometry ------------------------------- *)
(* Positions are points of an integer grid whose unit is one metre; (0,0)  *)
(* is the GPS null fix.  The workplace centre is the grid point named      *)
(* after the default coordinates 40.4093, 49.8671.                         *)
WORKPLACE_LAT == 404093

WORKPLACE_LON == 498671

Abs(x) == IF x < 0 THEN -x ELSE x

haversine_m(lat1, lon1, lat2, lon2) == Abs(lat1 - lat2) + Abs(lon1 - lon2)

PZero == [lat |-> 0, lon |-> 0]
PNear == [lat |-> WORKPLACE_LAT + 200, lon |-> WORKPLACE_LON]
PEdge == [lat |-> WORKPLACE_LAT + 300, lon |-> WORKPLACE_LON]
POut == [lat |-> WORKPLACE_LAT + 301, lon |-> WORKPLACE_LON]
Points == {PZero, PNear, PEdge, POut}

Min(a, b) == IF a < b THEN a ELSE b

WORKPLACE_RADIUS_M_noclamp(env) == env

WORKPLACE_RADIUS_M(env) == Min(env, RADIUS_CLAMP_M)

(* ------------------------------- clock --------------------------------- *)
Hour(t) == (t % DaySeconds) \div HourSeconds

BakuDate(t) == t \div DaySeconds

(* The date the database attributes to a stored start_time.  SQLite keeps  *)
(* the ISO text and compares its first ten characters (the Baku date).     *)
(* PostgreSQL keeps an instant and casts it to a date in the session time  *)
(* zone, which the program never sets: cfg.pg_tz_offset is that zone.      *)
StoredDate(t) ==
    IF cfg.postgres THEN (t - BAKU_UTC_OFFSET_S + cfg.pg_tz_offset) \div DaySeconds
    ELSE t \div DaySeconds

(* ------------------------------ database ------------------------------- *)
(* A column without a value; every stored number is non-negative. *)
NULL == 0 - 1
NoRow == [id |-> 0]
NoPending == [action |-> "none", ts |-> 0]
NoProfile ==
    [id |-> 0, is_active |-> TRUE, name |-> "", fin |-> "", seriya |-> "", code |-> "",
     phone_number |-> ""]

(* The profile of a registrant who registered before the first instant. *)
SeedProfile(c) ==
    [id |-> c, is_active |-> TRUE, name |-> "Ali Veli",
     fin |-> IF c = Colleague THEN "XYZ9876" ELSE "ABC1234",
     seriya |-> "AA1234567", code |-> "K1", phone_number |-> "+994501234567"]

MaxId(S) == IF S = {} THEN 0 ELSE CHOOSE m \in S : \A x \in S : x <= m

Latest(rows) == IF rows = {} THEN NoRow ELSE CHOOSE r \in rows : \A q \in rows : q.id <= r.id

get_user_by_telegram_id(tid) == users[tid]

HasProfile(tid) == users[tid].id # 0

Users2After(tid) ==
    IF users2[tid] # 0 THEN users2
    ELSE [users2 EXCEPT ![tid] = MaxId({users2[c] : c \in Chats}) + 1]

get_or_create_user2(tid) == Users2After(tid)[tid]

get_user_session_on_date(uid, iso_date) ==
    Latest({s \in sessions : s.user_id = uid /\ StoredDate(s.start_time) = iso_date})

get_open_session_closed_too(uid) == Latest({s \in sessions : s.user_id = uid})

get_open_session(uid) ==
    Latest({s \in sessions : s.user_id = uid /\ s.end_time = NULL})

create_session(uid, start_time, p) ==
    sessions \cup {[id |-> MaxId({s.id : s \in sessions}) + 1, user_id |-> uid,
                    start_time |-> start_time, start_lat |-> p.lat, start_lon |-> p.lon,
                    end_time |-> NULL, end_lat |-> NULL, end_lon |-> NULL,
                    duration_min |-> NULL, distance_m |-> NULL]}

close_session(sid, end_time, p, duration_min, distance_m) ==
    { IF s.id = sid
        THEN [s EXCEPT !.end_time = end_time, !.end_lat = p.lat, !.end_lon = p.lon,
                       !.duration_min = duration_min, !.distance_m = distance_m]
        ELSE s : s \in sessions }

(* The legacy attendance mirror: one row per legacy user and date. *)
record_giris(user_id, date, time) ==
    IF \E a \in attendance : a.user_id = user_id /\ a.date = date
    THEN attendance
    ELSE attendance \cup {[id |-> MaxId({a.id : a \in attendance}) + 1, user_id |-> user_id,
                           date |-> date, giris_time |-> time, cixis_time |-> NULL]}

record_cixis(user_id, date, time) ==
    { IF a.user_id = user_id /\ a.date = date /\ a.cixis_time = NULL
        THEN [a EXCEPT !.cixis_time = time] ELSE a : a \in attendance }

is_admin_configured == cfg.ADMIN_ID # 0

(* -------------------------- handler plumbing --------------------------- *)
(* ev is the last thing a handler did: which handler, for which chat, with *)
(* what outcome, in which phase ("run": it ran up to an await and its       *)
(* remainder is in inflight; "end": it ran and finished; "resumed": its    *)
(* remainder ran and it finished), and whether the administrator was       *)
(* alerted.  last_press is the button of the chat's most recent press.     *)
Event(c, h, o, ph, a) == [chat |-> c, handler |-> h, outcome |-> o, phase |-> ph, alert |-> a]

(* The rest of a suspended handler: it removes the chat's pending action   *)
(* and, for a rule rejection with an administrator configured, alerts.     *)
Cont(h, o, a) == [handler |-> h, outcome |-> o, alert |-> a]

(* room is how many handlers of one chat may be suspended at a time. *)
CanSuspendIn(c, k, room) == k \in inflight[c] \/ Cardinality(inflight[c]) < room

CanSuspend(c, k) == CanSuspendIn(c, k, MaxInFlight)

Suspend(c, k) == inflight' = [inflight EXCEPT ![c] = @ \cup {k}]

Pop(c) == [pending_action EXCEPT ![c] = NoPending]

(* Deployments: the SQLite backend with a radius setting above the clamp   *)
(* and an administrator; the PostgreSQL backend with a UTC session, a      *)
(* radius setting below the clamp and no administrator.                    *)
Configs ==
    { [postgres |-> FALSE, pg_tz_offset |-> 0, sys_tz_offset |-> BAKU_UTC_OFFSET_S,
        radius_env |-> 500, ADMIN_ID |-> 99],
      [postgres |-> TRUE, pg_tz_offset |-> 0, sys_tz_offset |-> 0,
        radius_env |-> 200, ADMIN_ID |-> 0] }

(* Positions a location update carries.  A check-in is not geofenced, so   *)
(* one valid position stands for all of them there.                        *)
LocationInputs(c) ==
    IF pending_action[c].action = "checkin" THEN {PZero, PNear} ELSE Points

(* The data dictionary of a chat's dialogue; "" or NULL is a missing key. *)
NoData ==
    [profession |-> "", code |-> "", name |-> "", fin |-> "", document_series_number |-> "",
     action |-> "", date |-> NULL, field |-> ""]

(* The registration-log row of a registrant who registered on day 0. *)
SeedRegistration(c) == [id |-> c, user_id |-> c, date |-> 0, profession |-> "Aspaz", code |-> "K1"]

(* Group codes the administrator added on day 0: one that never expires   *)
(* and one that expires at the end of day 1.                               *)
GROUP_CODE_NO_EXPIRY_DATE == 9999

SeedGroupCodes ==
    { [id |-> 1, profession |-> "Aspaz", date |-> 0, code |-> "K1",
       expires_at |-> GROUP_CODE_NO_EXPIRY_DATE, is_active |-> TRUE],
      [id |-> 2, profession |-> "Derzi", date |-> 0, code |-> "K2",
       expires_at |-> 1, is_active |-> TRUE] }

(* The administrator's collected answers; 0 is a missing user_id. *)
NoAdminData == [action |-> "", user_id |-> 0]

(* The colleague's mirror row of the check-in before the first instant. *)
ColleagueAttendance ==
    [id |-> 1, user_id |-> Colleague, date |-> 1, giris_time |-> DaySeconds + FirstDayInstants[1],
     cixis_time |-> NULL]

ColleagueSession ==
    [id |-> 1, user_id |-> 1, start_time |-> DaySeconds + FirstDayInstants[1],
     start_lat |-> PNear.lat, start_lon |-> PNear.lon,
     end_time |-> NULL, end_lat |-> NULL, end_lon |-> NULL,
     duration_min |-> NULL, distance_m |-> NULL]

(* ------------------------- single-instance guard ----------------------- *)
(* Processes started on the same LOCK_FILE_PATH; a process is known by its *)
(* process id, and no id is given out twice.                               *)
MaxProcs == 3

Procs == 1 .. MaxProcs

(* The marker file: whether the path exists, which create made the file    *)
(* that is now at the path, and the text in it (0: nothing written yet).   *)
NoFile == [exists |-> FALSE, inode |-> 0, content |-> 0]

(* Where a process is: not started; inside acquire_single_instance_lock    *)
(* before one of its file-system calls; running after acquire returned     *)
(* True; ended after acquire returned False, after a clean exit, or        *)
(* killed.  With it: the pid it read, what it found at the path when it    *)
(* started, the processes that were running then, and whether the acquire  *)
(* it is in has called itself again after removing a marker: "no", "once"  *)
(* or "again" (more than once).                                            *)
AcquireSteps == {"create", "write", "read", "probe", "remove"}

NoProc == [pc |-> "idle", pid |-> 0, found |-> "none", after |-> {}, retried |-> "no"]

StartupIdle ==
    /\ lock_file = NoFile
    /\ lock_proc = [p \in Procs |-> NoProc]

(* ------------------------------- geocoding ----------------------------- *)
(* Lookups run as tasks of the one event loop; each task makes one call of *)
(* reverse_geocode, and the tasks are numbered in the order of their       *)
(* calls.  The loop's clock counts half seconds.                           *)
MaxGeoTasks == 2

MaxGeoTicks == 2

GeoTasks == 1 .. MaxGeoTasks

GEOCODING_RPS == 1

GEOCODING_CACHE_TTL_SEC == 86400

HalfSeconds(s) == 2 * s

(* time.time() at the first step: long after the epoch. *)
GeoStart == HalfSeconds(DaySeconds)

(* Coordinates in millionths of a degree; the first two differ only past   *)
(* the fifth decimal.                                                      *)
GeoCoords ==
    {[lat |-> 40409331, lon |-> 49867100], [lat |-> 40409334, lon |-> 49867100],
     [lat |-> 40409338, lon |-> 49867100]}

(* round(x, 5) *)
Round5(x) == (x + 5) \div 10

GeoKey(c) == <<Round5(c.lat), Round5(c.lon)>>

GeoKeys == {GeoKey(c) : c \in GeoCoords}

NoEntry == [address |-> "", timestamp |-> 0]

NoCoord == [lat |-> 0, lon |-> 0]

NoGeoTask ==
    [pc |-> "idle", coord |-> NoCoord, started |-> 0, result |-> "", cached |-> FALSE,
     released_at |-> 0, slept |-> FALSE]

GeocodingIdle ==
    /\ geo_clock = GeoStart
    /\ cache = [k \in GeoKeys |-> NoEntry]
    /\ rate_limiter = [last_request_time |-> 0, locked_by |-> 0, wake |-> 0]
    /\ geo_task = [t \in GeoTasks |-> NoGeoTask]
    /\ geo_requests = {}

(* No function of the library called yet: for each function the arguments *)
(* and the result of its call, empty until it is made.                    *)
NoCall ==
    [fn |-> "",
     rules |-> [args |-> [giris_time |-> "", cixis_time |-> "",
                          giris |-> [lat |-> 0, lon |-> 0], cixis |-> [lat |-> 0, lon |-> 0],
                          is_active |-> 0, min_work_hours |-> 0],
                result |-> [status |-> "", violations |-> <<>>]],
     phone |-> [args |-> [phone |-> ""], result |-> ""],
     chunks |-> [args |-> [text |-> [len |-> 0, newlines |-> {}, lines |-> <<>>]],
                 result |-> <<>>],
     report |-> [args |-> [period_type |-> "", start_date |-> 0, end_date |-> 0, code |-> ""],
                 result |-> {}],
     profile |-> [args |-> [telegram_id |-> 0, name |-> "", fin |-> "", code |-> "",
                            seriya |-> "", phone_number |-> ""]],
     code_valid |-> [args |-> [profession |-> "", code |-> "", on_date |-> 0], result |-> FALSE],
     csv |-> [args |-> [report_data |-> <<>>], result |-> [headers |-> <<>>, rows |-> 0]],
     mirror |-> [args |-> [user_id |-> 0, date |-> 0, time |-> 0], result |-> ""],
     gcode |-> [args |-> [profession |-> "", date |-> 0, code |-> "", is_active |-> FALSE],
                result |-> FALSE],
     pool |-> [args |-> [pg_pool |-> FALSE, accept_at |-> 0, error |-> ""],
               result |-> [pg_pool |-> FALSE, raised |-> "", attempts |-> 0, sleeps |-> <<>>]]]

BotStart ==
    /\ now = DaySeconds + FirstDayInstants[1]
    /\ cfg \in Configs
    /\ users \in { f \in [Chats -> {NoProfile} \cup {SeedProfile(c) : c \in Chats}] :
                     /\ \A c \in Workers : f[c].id \in {0, c}
                     /\ f[Colleague].id = Colleague }
    /\ users2 = [c \in Chats |-> IF c = Colleague THEN 1 ELSE 0]
    /\ sessions = {ColleagueSession}
    /\ pending_action = [c \in Chats |-> NoPending]
    /\ inflight = [c \in Chats |-> {}]
    /\ ev = Event(0, "start", "none", "end", FALSE)
    /\ last_press = [c \in Chats |-> "none"]
    /\ fsm_state = [c \in Chats |-> "none"]
    /\ fsm_data = [c \in Chats |-> NoData]
    /\ registrations = { SeedRegistration(c) : c \in {q \in Chats : users[q].id # 0} }
    /\ group_codes = SeedGroupCodes
    /\ reg_inflight = [c \in Chats |-> {}]
    /\ last_text = ""
    /\ attendance = {ColleagueAttendance}
    /\ admin_state = "none"
    /\ admin_data = NoAdminData

Init ==
    /\ BotStart
    /\ StartupIdle
    /\ GEOCODING_ENABLED = FALSE
    /\ GeocodingIdle
    /\ fn_call = NoCall
    /\ reminders = {}

(* The clock moves to the next instant it visits.  Replies are sent well   *)
(* within the gap between two instants: no handler stays suspended across  *)
(* a move of the clock.                                                    *)
Tick ==
    /\ \A c \in Chats : inflight[c] = {} /\ reg_inflight[c] = {}
    /\ \E t \in Instants :
         /\ t > now
         /\ \A q \in Instants : q > now => t <= q
         /\ now' = t
    /\ ev' = Event(0, "clock", "none", "end", FALSE)
    /\ UNCHANGED <<cfg, users, users2, sessions, pending_action, inflight, last_press, attendance>>
    /\ UNCHANGED <<registration_vars, admin_vars>>
    /\ UNCHANGED <<startup_vars, geocoding_vars, library_vars, task_vars>>

(* ------------------------------ rule gates ----------------------------- *)
CheckinTooLate_never(t) == FALSE

CheckinTooLate(t) == Hour(t) >= CHECKIN_DEADLINE_HOUR

CheckoutTooLate_never(t) == FALSE

CheckoutTooLate(t) == Hour(t) >= CHECKOUT_DEADLINE_HOUR

IntentExpired_never(ts, t) == FALSE

IntentExpired(ts, t) == t - ts > LOCATION_TIMEOUT

UnderMinDuration_never(start_time, t) == FALSE

UnderMinDuration(start_time, t) == t - start_time < MIN_WORK_DURATION_HOURS * HourSeconds

DurationMin(start_time, t) == IF t - start_time < 0 THEN 0 ELSE (t - start_time) \div 60

GpsInvalid(p) == p.lat = 0 /\ p.lon = 0

OutsideWorkplace(p) ==
    haversine_m(WORKPLACE_LAT, WORKPLACE_LON, p.lat, p.lon) > WORKPLACE_RADIUS_M(cfg.radius_env)

Deactivated(c) == HasProfile(c) /\ ~get_user_by_telegram_id(c).is_active

(* ------------------------------ handlers ------------------------------- *)
handle_giris(c) ==
    /\ fsm_state[c] = "none"
    /\ IF CheckinTooLate(now)
         THEN /\ CanSuspend(c, Cont("handle_giris", "late", FALSE))
              /\ Suspend(c, Cont("handle_giris", "late", FALSE))
              /\ ev' = Event(c, "handle_giris", "late", "run", FALSE)
              /\ UNCHANGED <<users2, pending_action>>
         ELSE IF Deactivated(c)
         THEN /\ ev' = Event(c, "handle_giris", "inactive", "end", FALSE)
              /\ UNCHANGED <<users2, pending_action, inflight>>
         ELSE /\ users2' = Users2After(c)
              /\ IF get_user_session_on_date(get_or_create_user2(c), BakuDate(now)) # NoRow
                   THEN /\ CanSuspend(c, Cont("handle_giris", "already_in", FALSE))
                        /\ Suspend(c, Cont("handle_giris", "already_in", FALSE))
                        /\ ev' = Event(c, "handle_giris", "already_in", "run", FALSE)
                        /\ UNCHANGED pending_action
                   ELSE /\ pending_action' = [pending_action EXCEPT ![c] = [action |-> "checkin", ts |-> now]]
                        /\ ev' = Event(c, "handle_giris", "ask_location", "end", FALSE)
                        /\ UNCHANGED inflight
    /\ last_press' = [last_press EXCEPT ![c] = "checkin"]
    /\ UNCHANGED <<now, cfg, users, sessions, attendance>>
    /\ UNCHANGED <<registration_vars, admin_vars>>
    /\ UNCHANGED <<startup_vars, geocoding_vars, library_vars, task_vars>>

handle_cixis(c) ==
    /\ fsm_state[c] = "none"
    /\ IF CheckoutTooLate(now)
         THEN /\ CanSuspend(c, Cont("handle_cixis", "late", FALSE))
              /\ Suspend(c, Cont("handle_cixis", "late", FALSE))
              /\ ev' = Event(c, "handle_cixis", "late", "run", FALSE)
              /\ UNCHANGED <<users2, pending_action>>
         ELSE IF Deactivated(c)
         THEN /\ ev' = Event(c, "handle_cixis", "inactive", "end", FALSE)
              /\ UNCHANGED <<users2, pending_action, inflight>>
         ELSE /\ users2' = Users2After(c)
              /\ LET sess == get_open_session(get_or_create_user2(c))
                 IN IF sess = NoRow
                      THEN /\ CanSuspend(c, Cont("handle_cixis", "no_open_session", FALSE))
                           /\ Suspend(c, Cont("handle_cixis", "no_open_session", FALSE))
                           /\ ev' = Event(c, "handle_cixis", "no_open_session", "run", FALSE)
                           /\ UNCHANGED pending_action
                      ELSE IF UnderMinDuration(sess.start_time, now)
                      THEN /\ ev' = Event(c, "handle_cixis", "too_early", "end", FALSE)
                           /\ UNCHANGED <<pending_action, inflight>>
                      ELSE /\ pending_action' = [pending_action EXCEPT ![c] = [action |-> "checkout", ts |-> now]]
                           /\ ev' = Event(c, "handle_cixis", "ask_location", "end", FALSE)
                           /\ UNCHANGED inflight
    /\ last_press' = [last_press EXCEPT ![c] = "checkout"]
    /\ UNCHANGED <<now, cfg, users, sessions, attendance>>
    /\ UNCHANGED <<registration_vars, admin_vars>>
    /\ UNCHANGED <<startup_vars, geocoding_vars, library_vars, task_vars>>

(* What handle_location decides for the pending action, the position and   *)
(* the database as they are when the update is processed.                  *)
CheckinOutcome(uid, p) ==
    IF CheckinTooLate(now) THEN "late"
    ELSE IF GpsInvalid(p) THEN "gps_invalid"
    ELSE IF get_user_session_on_date(uid, BakuDate(now)) # NoRow THEN "already_in"
    ELSE "created"

CheckoutOutcome(uid, p) ==
    LET sess == get_open_session(uid)
        today_sess == get_user_session_on_date(uid, BakuDate(now))
    IN  IF CheckoutTooLate(now) THEN "late"
        ELSE IF GpsInvalid(p) THEN "gps_invalid"
        ELSE IF sess = NoRow THEN "no_open_session"
        ELSE IF today_sess # NoRow /\ today_sess.end_time # NULL THEN "already_out"
        ELSE IF UnderMinDuration(sess.start_time, now) THEN "too_early"
        ELSE IF OutsideWorkplace(p) THEN "outside"
        ELSE "closed"

RuleRejection(o) == o \in {"late", "gps_invalid", "too_early", "outside"}

handle_location_in(c, p, room) ==
    LET pa == pending_action[c]
        h == IF pa.action = "checkin" THEN "location_checkin" ELSE "location_checkout"
    IN
    /\ fsm_state[c] = "none"
    /\ IF pa = NoPending
         THEN /\ ev' = Event(c, "handle_location", "ignored", "end", FALSE)
              /\ UNCHANGED <<users2, sessions, pending_action, inflight>>
         ELSE IF IntentExpired(pa.ts, now)
         THEN /\ pending_action' = Pop(c)
              /\ ev' = Event(c, h, "expired", "end", FALSE)
              /\ UNCHANGED <<users2, sessions, inflight>>
         ELSE LET uid == get_or_create_user2(c)
                  o == IF pa.action = "checkin" THEN CheckinOutcome(uid, p) ELSE CheckoutOutcome(uid, p)
                  k == Cont(h, o, RuleRejection(o) /\ is_admin_configured)
                  sess == get_open_session(uid)
              IN  /\ users2' = Users2After(c)
                  /\ CanSuspendIn(c, k, room)
                  /\ o = "created" => Cardinality({s \in sessions : s.user_id = uid}) < MaxSessions
                  /\ Suspend(c, k)
                  /\ ev' = Event(c, h, o, "run", FALSE)
                  /\ sessions' = IF o = "created" THEN create_session(uid, now, p)
                                 ELSE IF o = "closed"
                                 THEN close_session(sess.id, now, p, DurationMin(sess.start_time, now),
                                                    haversine_m(sess.start_lat, sess.start_lon, p.lat, p.lon))
                                 ELSE sessions
                  /\ UNCHANGED pending_action
    /\ UNCHANGED <<now, cfg, users, last_press, attendance>>
    /\ UNCHANGED <<registration_vars, admin_vars>>
    /\ UNCHANGED <<startup_vars, geocoding_vars, library_vars, task_vars>>

handle_location(c, p) == handle_location_in(c, p, MaxInFlight)

(* asyncio.create_task(schedule_checkout_reminder(user_id, now, uid)): a    *)
(* task that sleeps 8 hours from the moment it is started.                 *)
REMINDER_WAIT_S == 8 * HourSeconds

ReminderTask(telegram_id, checkin_time, user2_id) ==
    [telegram_id |-> telegram_id, checkin_time |-> checkin_time, user2_id |-> user2_id,
     due |-> now + REMINDER_WAIT_S, pc |-> "sleeping", sent |-> FALSE]

(* The part of a suspended handler after its replies were sent. *)
Resume(c) ==
    /\ \E k \in inflight[c] :
         /\ inflight' = [inflight EXCEPT ![c] = @ \ {k}]
         /\ pending_action' = Pop(c)
         /\ ev' = Event(c, k.handler, k.outcome, "resumed", k.alert)
         /\ attendance' =
              IF k.outcome = "created" /\ HasProfile(c)
              THEN record_giris(get_user_by_telegram_id(c).id, BakuDate(now), now)
              ELSE IF k.outcome = "closed" /\ HasProfile(c)
              THEN record_cixis(get_user_by_telegram_id(c).id, BakuDate(now), now)
              ELSE attendance
         /\ reminders' =
              IF k.outcome = "created"
              THEN reminders \cup {ReminderTask(c, now, users2[c])}
              ELSE reminders
    /\ UNCHANGED <<now, cfg, users, users2, sessions, last_press>>
    /\ UNCHANGED <<registration_vars, admin_vars>>
    /\ UNCHANGED <<startup_vars, geocoding_vars, library_vars>>

(* The administrator deactivates or activates a registrant. *)
set_user_active(c, is_active) ==
    /\ HasProfile(c)
    /\ users' = [users EXCEPT ![c].is_active = is_active]
    /\ ev' = Event(c, "admin_manage_student_code_or_id", IF is_active THEN "activate" ELSE "deactivate", "end", FALSE)
    /\ UNCHANGED <<now, cfg, users2, sessions, pending_action, inflight, last_press, attendance>>
    /\ UNCHANGED <<registration_vars, admin_vars>>
    /\ UNCHANGED <<startup_vars, geocoding_vars, library_vars, task_vars>>

(* -------------------------------- text --------------------------------- *)
(* Message texts are strings; the operators below are the string methods   *)
(* the handlers call.  Texts are written in ASCII (the cancel button's     *)
(* label keeps its length of nine characters).                             *)
CANCEL_TEXT == "X Legv et"

PROFESSIONS == <<"Aspaz", "Derzi", "Qennadi", "Qrafik dizayn", "Permanent", "Full stack", "Satici/kassir">>

LowerLetters == "abcdefghijklmnopqrstuvwxyz"

UpperLetters == "ABCDEFGHIJKLMNOPQRSTUVWXYZ"

Digits == "0123456789"

CharAt(s, i) == SubSeq(s, i, i)

IndexIn(ch, alphabet) ==
    IF \E i \in 1..Len(alphabet) : CharAt(alphabet, i) = ch
    THEN CHOOSE i \in 1..Len(alphabet) : CharAt(alphabet, i) = ch
    ELSE 0

UpperChar(ch) == IF IndexIn(ch, LowerLetters) # 0 THEN CharAt(UpperLetters, IndexIn(ch, LowerLetters)) ELSE ch

LowerChar(ch) == IF IndexIn(ch, UpperLetters) # 0 THEN CharAt(LowerLetters, IndexIn(ch, UpperLetters)) ELSE ch

RECURSIVE Upper(_)
Upper(s) == IF Len(s) = 0 THEN "" ELSE UpperChar(CharAt(s, 1)) \o Upper(SubSeq(s, 2, Len(s)))

RECURSIVE Lower(_)
Lower(s) == IF Len(s) = 0 THEN "" ELSE LowerChar(CharAt(s, 1)) \o Lower(SubSeq(s, 2, Len(s)))

(* str.replace(ch, "") for every character ch of chars *)
RECURSIVE RemoveChars(_, _)
RemoveChars(s, chars) ==
    IF Len(s) = 0 THEN ""
    ELSE (IF IndexIn(CharAt(s, 1), chars) # 0 THEN "" ELSE CharAt(s, 1))
         \o RemoveChars(SubSeq(s, 2, Len(s)), chars)

(* str.strip(chars) *)
RECURSIVE LStripChars(_, _)
LStripChars(s, chars) ==
    IF Len(s) = 0 THEN ""
    ELSE IF IndexIn(CharAt(s, 1), chars) # 0 THEN LStripChars(SubSeq(s, 2, Len(s)), chars)
    ELSE s

RECURSIVE RStripChars(_, _)
RStripChars(s, chars) ==
    IF Len(s) = 0 THEN ""
    ELSE IF IndexIn(CharAt(s, Len(s)), chars) # 0 THEN RStripChars(SubSeq(s, 1, Len(s) - 1), chars)
    ELSE s

StripChars(s, chars) == RStripChars(LStripChars(s, chars), chars)

Strip(s) == StripChars(s, " ")

IsDigit(s) == Len(s) > 0 /\ \A i \in 1..Len(s) : IndexIn(CharAt(s, i), Digits) # 0

IsUpperAlpha(s) == Len(s) > 0 /\ \A i \in 1..Len(s) : IndexIn(CharAt(s, i), UpperLetters) # 0

StartsWith(s, prefix) == Len(s) >= Len(prefix) /\ SubSeq(s, 1, Len(prefix)) = prefix

StartsWithAny(s, prefixes) == \E q \in prefixes : StartsWith(s, q)

(* needle in hay *)
Contains(needle, hay) ==
    \/ Len(needle) = 0
    \/ \E i \in 1..(Len(hay) - Len(needle) + 1) : SubSeq(hay, i, i + Len(needle) - 1) = needle

(* s.split(".", 1)[0] *)
BeforeDot(s) ==
    LET dots == {i \in 1..Len(s) : CharAt(s, i) = "."}
    IN  IF dots = {} THEN s
        ELSE IF (CHOOSE i \in dots : \A j \in dots : i <= j) = 1 THEN ""
        ELSE SubSeq(s, 1, (CHOOSE i \in dots : \A j \in dots : i <= j) - 1)

RECURSIVE ToInt(_)
ToInt(s) == IF Len(s) = 0 THEN 0 ELSE 10 * ToInt(SubSeq(s, 1, Len(s) - 1)) + (IndexIn(CharAt(s, Len(s)), Digits) - 1)

(* The first profession of the list whose index is in hits, "" when none. *)
FirstProfession(hits) ==
    IF hits = {} THEN "" ELSE PROFESSIONS[CHOOSE i \in hits : \A j \in hits : i <= j]

(* The profession reg_pick_profession chooses for a text, "" when none. *)
ChosenProfession(text) ==
    LET raw == Strip(StripChars(text, "\"' "))
        idx_part == BeforeDot(raw)
        idx == ToInt(idx_part) - 1
        exact == {i \in 1..Len(PROFESSIONS) : Lower(PROFESSIONS[i]) = Lower(raw)}
        loose == {i \in 1..Len(PROFESSIONS) : Contains(Lower(raw), Lower(PROFESSIONS[i]))}
    IN  IF IsDigit(idx_part) /\ 0 <= idx /\ idx < Len(PROFESSIONS) THEN PROFESSIONS[idx + 1]
        ELSE IF exact # {} THEN FirstProfession(exact)
        ELSE FirstProfession(loose)

(* validate_seriya: the normalised value, "" when the text is rejected. *)
validate_seriya(val) ==
    LET s == Upper(RemoveChars(val, " "))
    IN  IF \/ Len(s) = 9 /\ IsUpperAlpha(SubSeq(s, 1, 2)) /\ IsDigit(SubSeq(s, 3, 9))
           \/ Len(s) = 11 /\ IsUpperAlpha(SubSeq(s, 1, 3)) /\ IsDigit(SubSeq(s, 4, 11))
        THEN s ELSE ""

OperatorCodes == {"50", "51", "55", "60", "70", "77", "10", "12", "90", "99"}

LocalOperatorCodes == {"50", "51", "55", "60", "70", "77", "10", "12"}

(* validate_and_normalize_phone: the normalised number, "" when invalid. *)
validate_and_normalize_phone(phone_raw) ==
    LET phone == Strip(phone_raw)
        clean_phone == RemoveChars(phone, " -()")
    IN  IF Len(phone) = 0 THEN ""
        ELSE IF Len(clean_phone) = 9 /\ IsDigit(clean_phone)
        THEN (IF StartsWithAny(clean_phone, OperatorCodes) THEN "+994" \o clean_phone ELSE "")
        ELSE IF StartsWith(clean_phone, "+994")
        THEN (LET digits == SubSeq(clean_phone, 5, Len(clean_phone))
              IN  IF Len(digits) = 9 /\ IsDigit(digits) /\ StartsWithAny(digits, OperatorCodes)
                  THEN "+994" \o digits ELSE "")
        ELSE IF StartsWith(clean_phone, "994")
        THEN (LET digits == SubSeq(clean_phone, 4, Len(clean_phone))
              IN  IF Len(digits) = 9 /\ IsDigit(digits) /\ StartsWithAny(digits, OperatorCodes)
                  THEN "+994" \o digits ELSE "")
        ELSE IF StartsWith(clean_phone, "0")
        THEN (IF Len(clean_phone) = 10 /\ IsDigit(clean_phone)
                 /\ SubSeq(clean_phone, 2, 3) \in LocalOperatorCodes
              THEN "+994" \o SubSeq(clean_phone, 2, Len(clean_phone)) ELSE "")
        ELSE ""

(* ----------------------- registration: database ------------------------ *)
AUTO_RESET_DAYS == 120

(* datetime.now().date() of the server, whose zone is cfg.sys_tz_offset. *)
SystemDate(t) == (t - BAKU_UTC_OFFSET_S + cfg.sys_tz_offset) \div DaySeconds

upsert_user_profile_reactivating(tid, name, fin, code, seriya, phone_number) ==
    [users EXCEPT ![tid] = [id |-> IF users[tid].id # 0 THEN users[tid].id
                                   ELSE MaxId({users[c].id : c \in Chats}) + 1,
                            is_active |-> TRUE, name |-> name, fin |-> fin, seriya |-> seriya,
                            code |-> code, phone_number |-> phone_number]]

upsert_user_profile(tid, name, fin, code, seriya, phone_number) ==
    IF users[tid].id # 0
    THEN [users EXCEPT ![tid].name = name, ![tid].fin = fin, ![tid].seriya = seriya,
                       ![tid].code = code, ![tid].phone_number = phone_number]
    ELSE [users EXCEPT ![tid] = [id |-> MaxId({users[c].id : c \in Chats}) + 1, is_active |-> TRUE,
                                 name |-> name, fin |-> fin, seriya |-> seriya, code |-> code,
                                 phone_number |-> phone_number]]

has_registration_never(user_id, date, profession, code) == FALSE

has_registration(user_id, date, profession, code) ==
    \E r \in registrations :
        r.user_id = user_id /\ r.date = date /\ r.profession = profession /\ r.code = code

(* INSERT under UNIQUE(user_id, date, code, profession): a second row with *)
(* the same key raises IntegrityError and nothing is written.              *)
add_registration(user_id, date, profession, code) ==
    IF \E r \in registrations :
           r.user_id = user_id /\ r.date = date /\ r.code = code /\ r.profession = profession
    THEN registrations
    ELSE registrations \cup {[id |-> MaxId({r.id : r \in registrations}) + 1, user_id |-> user_id,
                              date |-> date, profession |-> profession, code |-> code]}

get_last_registration_date(user_id) ==
    LET ds == {r.date : r \in {q \in registrations : q.user_id = user_id}}
    IN  IF ds = {} THEN NULL ELSE MaxId(ds)

is_group_code_valid(profession, code, on_date) ==
    \E g \in group_codes :
        /\ g.profession = profession /\ g.code = code
        /\ g.date <= on_date /\ (g.expires_at >= on_date \/ g.expires_at = NULL)
        /\ g.is_active

(* ------------------------------ deletion ------------------------------- *)
(* The five tables that hold rows of a chat identity. *)
Db ==
    [users |-> users, attendance |-> attendance, registrations |-> registrations,
     users2 |-> users2, sessions |-> sessions]

(* Deletes the legacy rows of telegram_id: attendance, registration log,   *)
(* profile.  result is whether a row was affected.                         *)
delete_user_by_telegram_id(db, telegram_id) ==
    LET uid == db.users[telegram_id].id
        att == {a \in db.attendance : a.user_id = uid}
        regs == {r \in db.registrations : r.user_id = uid}
    IN  IF uid = 0 THEN [db |-> db, result |-> FALSE]
        ELSE [db |-> [db EXCEPT !.attendance = @ \ att, !.registrations = @ \ regs,
                                !.users = [@ EXCEPT ![telegram_id] = NoProfile]],
              result |-> TRUE]

delete_user_all_legacy_only(db, telegram_id) == delete_user_by_telegram_id(db, telegram_id)

(* Deletes the legacy rows of telegram_id and then its GPS profile with    *)
(* the sessions of that profile.                                           *)
delete_user_all(db, telegram_id) ==
    LET legacy == delete_user_by_telegram_id(db, telegram_id)
        u2id == db.users2[telegram_id]
        sess == {x \in db.sessions : x.user_id = u2id}
    IN  IF u2id = 0 THEN legacy
        ELSE [db |-> [legacy.db EXCEPT !.sessions = @ \ sess,
                                       !.users2 = [@ EXCEPT ![telegram_id] = 0]],
              result |-> TRUE]

(* The tables take the values of a database image. *)
Commit(db) ==
    /\ users' = db.users
    /\ attendance' = db.attendance
    /\ registrations' = db.registrations
    /\ users2' = db.users2
    /\ sessions' = db.sessions

(* ----------------------- registration: dialogue ------------------------ *)
StateClear(c) ==
    /\ fsm_state' = [fsm_state EXCEPT ![c] = "none"]
    /\ fsm_data' = [fsm_data EXCEPT ![c] = NoData]

RegEvent(c, h, o, ph) == Event(c, h, o, ph, FALSE)

(* datetime.strptime(last_reg_date, "%Y-%m-%d"): the registration log keeps *)
(* its date as TEXT on SQLite and as DATE on PostgreSQL, where the driver  *)
(* hands back a date object; strptime takes a string only and raises, and  *)
(* the handler catches the exception and goes on to the menu.              *)
strptime_raises == cfg.postgres

handle_start(c) ==
    LET prof == get_user_by_telegram_id(c)
        last_reg_date == get_last_registration_date(prof.id)
    IN
    /\ IF ~HasProfile(c)
         THEN /\ users2' = Users2After(c)
              /\ fsm_state' = [fsm_state EXCEPT ![c] = "profession"]
              /\ fsm_data' = [fsm_data EXCEPT ![c] = NoData]
              /\ ev' = RegEvent(c, "handle_start", "registration", "end")
              /\ UNCHANGED <<users, sessions, registrations, attendance>>
         ELSE IF /\ last_reg_date # NULL /\ ~strptime_raises
                 /\ BakuDate(now) - last_reg_date > AUTO_RESET_DAYS
         THEN /\ Commit(delete_user_all([Db EXCEPT !.users2 = Users2After(c)], c).db)
              /\ fsm_state' = [fsm_state EXCEPT ![c] = "profession"]
              /\ fsm_data' = [fsm_data EXCEPT ![c] = NoData]
              /\ ev' = RegEvent(c, "handle_start", "auto_reset", "end")
         ELSE /\ users2' = Users2After(c)
              /\ ev' = RegEvent(c, "handle_start", "menu", "end")
              /\ UNCHANGED <<users, sessions, registrations, attendance, fsm_state, fsm_data>>
    /\ UNCHANGED <<now, cfg, pending_action, inflight, last_press, group_codes, reg_inflight, last_text>>
    /\ UNCHANGED admin_vars
    /\ UNCHANGED <<startup_vars, geocoding_vars, library_vars, task_vars>>

reg_pick_profession(c, message_text) ==
    LET text == Strip(message_text)
        chosen == ChosenProfession(text)
    IN
    /\ fsm_state[c] = "profession"
    /\ IF text = CANCEL_TEXT
         THEN /\ StateClear(c)
              /\ ev' = RegEvent(c, "reg_pick_profession", "cancelled", "end")
         ELSE IF chosen = ""
         THEN /\ ev' = RegEvent(c, "reg_pick_profession", "invalid", "end")
              /\ UNCHANGED <<fsm_state, fsm_data>>
         ELSE /\ fsm_data' = [fsm_data EXCEPT ![c].profession = chosen]
              /\ fsm_state' = [fsm_state EXCEPT ![c] = "code"]
              /\ ev' = RegEvent(c, "reg_pick_profession", "accepted", "end")
    /\ last_text' = message_text
    /\ UNCHANGED <<now, cfg, users, registrations, group_codes, reg_inflight>>
    /\ UNCHANGED <<attendance_vars, admin_vars>>
    /\ UNCHANGED <<startup_vars, geocoding_vars, library_vars, task_vars>>

reg_enter_code(c, message_text) ==
    LET code == Strip(message_text)
        prof == fsm_data[c].profession
    IN
    /\ fsm_state[c] = "code"
    /\ IF prof = ""
         THEN /\ fsm_state' = [fsm_state EXCEPT ![c] = "profession"]
              /\ ev' = RegEvent(c, "reg_enter_code", "no_profession", "end")
              /\ UNCHANGED fsm_data
         ELSE IF ~is_group_code_valid(prof, code, SystemDate(now))
         THEN /\ ev' = RegEvent(c, "reg_enter_code", "invalid", "end")
              /\ UNCHANGED <<fsm_state, fsm_data>>
         ELSE /\ fsm_data' = [fsm_data EXCEPT ![c].code = code]
              /\ fsm_state' = [fsm_state EXCEPT ![c] = "name"]
              /\ ev' = RegEvent(c, "reg_enter_code", "accepted", "end")
    /\ last_text' = message_text
    /\ UNCHANGED <<now, cfg, users, registrations, group_codes, reg_inflight>>
    /\ UNCHANGED <<attendance_vars, admin_vars>>
    /\ UNCHANGED <<startup_vars, geocoding_vars, library_vars, task_vars>>

reg_enter_name(c, message_text) ==
    LET name == Strip(message_text)
    IN
    /\ fsm_state[c] = "name"
    /\ IF Len(name) < 3
         THEN /\ ev' = RegEvent(c, "reg_enter_name", "invalid", "end")
              /\ UNCHANGED <<fsm_state, fsm_data>>
         ELSE /\ fsm_data' = [fsm_data EXCEPT ![c].name = name]
              /\ fsm_state' = [fsm_state EXCEPT ![c] = "fin"]
              /\ ev' = RegEvent(c, "reg_enter_name", "accepted", "end")
    /\ last_text' = message_text
    /\ UNCHANGED <<now, cfg, users, registrations, group_codes, reg_inflight>>
    /\ UNCHANGED <<attendance_vars, admin_vars>>
    /\ UNCHANGED <<startup_vars, geocoding_vars, library_vars, task_vars>>

reg_enter_fin(c, message_text) ==
    LET fin == Upper(Strip(message_text))
    IN
    /\ fsm_state[c] = "fin"
    /\ IF ~(7 <= Len(fin) /\ Len(fin) <= 10)
         THEN /\ ev' = RegEvent(c, "reg_enter_fin", "invalid", "end")
              /\ UNCHANGED <<fsm_state, fsm_data>>
         ELSE /\ fsm_data' = [fsm_data EXCEPT ![c].fin = fin]
              /\ fsm_state' = [fsm_state EXCEPT ![c] = "document_series_number"]
              /\ ev' = RegEvent(c, "reg_enter_fin", "accepted", "end")
    /\ last_text' = message_text
    /\ UNCHANGED <<now, cfg, users, registrations, group_codes, reg_inflight>>
    /\ UNCHANGED <<attendance_vars, admin_vars>>
    /\ UNCHANGED <<startup_vars, geocoding_vars, library_vars, task_vars>>

reg_enter_document_series_number(c, message_text) ==
    LET normalized == validate_seriya(Strip(message_text))
    IN
    /\ fsm_state[c] = "document_series_number"
    /\ IF normalized = ""
         THEN /\ ev' = RegEvent(c, "reg_enter_document_series_number", "invalid", "end")
              /\ UNCHANGED <<fsm_state, fsm_data>>
         ELSE /\ fsm_data' = [fsm_data EXCEPT ![c].document_series_number = normalized]
              /\ fsm_state' = [fsm_state EXCEPT ![c] = "phone_number"]
              /\ ev' = RegEvent(c, "reg_enter_document_series_number", "accepted", "end")
    /\ last_text' = message_text
    /\ UNCHANGED <<now, cfg, users, registrations, group_codes, reg_inflight>>
    /\ UNCHANGED <<attendance_vars, admin_vars>>
    /\ UNCHANGED <<startup_vars, geocoding_vars, library_vars, task_vars>>

(* The final step.  It is written at its awaits: the submission is routed  *)
(* and validated (reg_enter_phone_number), then reads the collected data,  *)
(* saves the profile and the registration-log row                          *)
(* (reg_enter_phone_number_save), then clears the dialogue and replies     *)
(* (reg_enter_phone_number_clear).  A second submission of the same chat   *)
(* may be routed while the first is between two of these.                  *)
RegCont(n, stage, phone_number, outcome) ==
    [n |-> n, stage |-> stage, phone_number |-> phone_number, outcome |-> outcome]

FreeSlots(c) == (1..MaxRegInFlight) \ {k.n : k \in reg_inflight[c]}

reg_enter_phone_number(c, message_text) ==
    LET phone_number == validate_and_normalize_phone(Strip(message_text))
    IN
    /\ fsm_state[c] = "phone_number"
    /\ IF phone_number = ""
         THEN /\ ev' = RegEvent(c, "reg_enter_phone_number", "invalid", "end")
              /\ UNCHANGED reg_inflight
         ELSE /\ FreeSlots(c) # {}
              /\ reg_inflight' = [reg_inflight EXCEPT ![c] = @ \cup
                     {RegCont(CHOOSE n \in FreeSlots(c) : \A m \in FreeSlots(c) : n <= m,
                              "get_data", phone_number, "none")}]
              /\ ev' = RegEvent(c, "reg_enter_phone_number", "phone_ok", "run")
    /\ last_text' = message_text
    /\ UNCHANGED <<now, cfg, users, fsm_state, fsm_data, registrations, group_codes>>
    /\ UNCHANGED <<attendance_vars, admin_vars>>
    /\ UNCHANGED <<startup_vars, geocoding_vars, library_vars, task_vars>>

Incomplete_never(data) == FALSE

Incomplete(data) ==
    \/ data.code = "" \/ data.name = "" \/ data.profession = "" \/ data.fin = ""
    \/ data.document_series_number = ""

reg_enter_phone_number_save(c) ==
    \E k \in reg_inflight[c] :
        LET data == fsm_data[c]
            saved == upsert_user_profile(c, data.name, data.fin, data.code,
                                         data.document_series_number, k.phone_number)
            legacy_user_id == saved[c].id
            today == BakuDate(now)
            outcome == IF Incomplete(data) THEN "incomplete"
                       ELSE IF has_registration(legacy_user_id, today, data.profession, data.code)
                       THEN "already_registered"
                       ELSE "registered"
        IN
        /\ k.stage = "get_data"
        /\ users' = IF outcome = "incomplete" THEN users ELSE saved
        /\ registrations' = IF outcome = "registered"
                            THEN add_registration(legacy_user_id, today, data.profession, data.code)
                            ELSE registrations
        /\ reg_inflight' = [reg_inflight EXCEPT ![c] =
                               (@ \ {k}) \cup {RegCont(k.n, "clear", k.phone_number, outcome)}]
        /\ ev' = RegEvent(c, "reg_enter_phone_number", outcome, "run")
        /\ UNCHANGED <<now, cfg, fsm_state, fsm_data, group_codes, last_text>>
        /\ UNCHANGED <<attendance_vars, admin_vars>>
    /\ UNCHANGED <<startup_vars, geocoding_vars, library_vars, task_vars>>

reg_enter_phone_number_clear(c) ==
    \E k \in reg_inflight[c] :
        /\ k.stage = "clear"
        /\ StateClear(c)
        /\ reg_inflight' = [reg_inflight EXCEPT ![c] = @ \ {k}]
        /\ ev' = Event(c, "reg_enter_phone_number", k.outcome, "resumed",
                       k.outcome = "registered" /\ is_admin_configured)
        /\ UNCHANGED <<now, cfg, users, registrations, group_codes, last_text>>
        /\ UNCHANGED <<attendance_vars, admin_vars>>
    /\ UNCHANGED <<startup_vars, geocoding_vars, library_vars, task_vars>>

(* Texts a registrant sends at each step. *)
ProfessionTexts == {CANCEL_TEXT, "2. Derzi", "aspaz", "xyz"}

CodeTexts == {CANCEL_TEXT, "K1", " K2 ", "ZZ"}

NameTexts == {CANCEL_TEXT, "Ali Veli", "Al"}

FinTexts == {CANCEL_TEXT, "abc1234", "ABC"}

SeriyaTexts == {CANCEL_TEXT, "aa 1234567", "A1"}

PhoneTexts == {CANCEL_TEXT, "501234567", "050 123-45-67", "123"}

NextReg ==
    \/ Tick
    \/ \E c \in Workers : handle_start(c)
    \/ \E c \in Workers : \E t \in ProfessionTexts : reg_pick_profession(c, t)
    \/ \E c \in Workers : \E t \in CodeTexts : reg_enter_code(c, t)
    \/ \E c \in Workers : \E t \in NameTexts : reg_enter_name(c, t)
    \/ \E c \in Workers : \E t \in FinTexts : reg_enter_fin(c, t)
    \/ \E c \in Workers : \E t \in SeriyaTexts : reg_enter_document_series_number(c, t)
    \/ \E c \in Workers : \E t \in PhoneTexts : reg_enter_phone_number(c, t)
    \/ \E c \in Workers : reg_enter_phone_number_save(c)
    \/ \E c \in Workers : reg_enter_phone_number_clear(c)

SpecReg == Init /\ [][NextReg]_vars

(* ------------------------ administrator: students ---------------------- *)
(* Button labels, in ASCII. *)
BTN_DELETE_STUDENT == "Telebe sil"

BTN_LIST_STUDENTS == "Telebeleri goster"

BTN_DEACTIVATE_STUDENT == "Telebeni deaktiv et"

BTN_ACTIVATE_STUDENT == "Telebeni aktiv et"

YES_TEXT == "Beli, sil"

NoTexts == {"X Xeyr", "X Xeyr, legv et"}

NoWords_none == {}

NoWords == {"xeyr", "legv", "cancel", "no"}

(* The chat the deployment's ADMIN_ID names, when one is configured. *)
AdminChat == CHOOSE a \in {k.ADMIN_ID : k \in Configs} : a # 0

is_admin_everyone(user_id) == cfg.ADMIN_ID # 0

is_admin(user_id) == cfg.ADMIN_ID # 0 /\ user_id = cfg.ADMIN_ID

AdminEvent(h, o) == Event(AdminChat, h, o, "end", FALSE)

AdminClear ==
    /\ admin_state' = "none"
    /\ admin_data' = NoAdminData

(* The registrant a typed chat identity or FIN names, 0 when none. *)
FindStudent(code_or_id) ==
    IF IsDigit(code_or_id) /\ ToInt(code_or_id) \in Chats /\ HasProfile(ToInt(code_or_id))
    THEN ToInt(code_or_id)
    ELSE LET hits == {c \in Chats : HasProfile(c) /\ Upper(users[c].fin) = Upper(code_or_id)}
         IN  IF hits = {} THEN 0 ELSE CHOOSE c \in hits : \A q \in hits : c <= q

btn_manage_students ==
    /\ IF is_admin(AdminChat)
         THEN /\ admin_state' = "action"
              /\ admin_data' = NoAdminData
              /\ ev' = AdminEvent("btn_manage_students", "menu")
         ELSE /\ ev' = AdminEvent("btn_manage_students", "not_admin")
              /\ UNCHANGED admin_vars
    /\ UNCHANGED <<now, cfg, users>>
    /\ UNCHANGED <<attendance_vars, registration_vars>>
    /\ UNCHANGED <<startup_vars, geocoding_vars, library_vars, task_vars>>

admin_manage_student_action(message_text) ==
    LET text == Strip(message_text)
        chosen == IF text = BTN_DELETE_STUDENT THEN "delete"
                  ELSE IF text = BTN_DEACTIVATE_STUDENT THEN "deactivate"
                  ELSE IF text = BTN_ACTIVATE_STUDENT THEN "activate"
                  ELSE ""
    IN
    /\ admin_state = "action"
    /\ IF text = CANCEL_TEXT
         THEN /\ AdminClear
              /\ ev' = AdminEvent("admin_manage_student_action", "cancelled")
         ELSE IF text = BTN_LIST_STUDENTS
         THEN /\ AdminClear
              /\ ev' = AdminEvent("admin_manage_student_action", "listed")
         ELSE IF chosen # ""
         THEN /\ admin_data' = [admin_data EXCEPT !.action = chosen]
              /\ admin_state' = "code_or_id"
              /\ ev' = AdminEvent("admin_manage_student_action", chosen)
         ELSE /\ ev' = AdminEvent("admin_manage_student_action", "invalid")
              /\ UNCHANGED admin_vars
    /\ UNCHANGED <<now, cfg, users>>
    /\ last_text' = message_text
    /\ UNCHANGED <<attendance_vars, fsm_state, fsm_data, registrations, group_codes, reg_inflight>>
    /\ UNCHANGED <<startup_vars, geocoding_vars, library_vars, task_vars>>

admin_manage_student_code_or_id(message_text) ==
    LET code_or_id == Strip(message_text)
        user == FindStudent(code_or_id)
        action == admin_data.action
    IN
    /\ admin_state = "code_or_id"
    /\ IF code_or_id = ""
         THEN /\ ev' = AdminEvent("admin_manage_student_code_or_id", "empty")
              /\ UNCHANGED <<users, admin_state, admin_data>>
         ELSE IF action \notin {"delete", "deactivate", "activate"}
         THEN /\ ev' = AdminEvent("admin_manage_student_code_or_id", "no_action")
              /\ UNCHANGED <<users, admin_state, admin_data>>
         ELSE IF user = 0
         THEN /\ AdminClear
              /\ ev' = AdminEvent("admin_manage_student_code_or_id", "not_found")
              /\ UNCHANGED users
         ELSE IF action = "delete"
         THEN /\ admin_data' = [admin_data EXCEPT !.user_id = user]
              /\ admin_state' = "confirm"
              /\ ev' = AdminEvent("admin_manage_student_code_or_id", "ask_confirm")
              /\ UNCHANGED users
         ELSE /\ users' = [users EXCEPT ![user].is_active = (action = "activate")]
              /\ AdminClear
              /\ ev' = AdminEvent("admin_manage_student_code_or_id", action)
    /\ UNCHANGED <<now, cfg>>
    /\ last_text' = message_text
    /\ UNCHANGED <<attendance_vars, fsm_state, fsm_data, registrations, group_codes, reg_inflight>>
    /\ UNCHANGED <<startup_vars, geocoding_vars, library_vars, task_vars>>

admin_manage_student_confirm(message_text) ==
    LET text == Strip(message_text)
        user_id == admin_data.user_id
        deleted == delete_user_by_telegram_id(Db, user_id)
    IN
    /\ admin_state = "confirm"
    /\ IF text = YES_TEXT
         THEN IF user_id # 0
              THEN /\ Commit(deleted.db)
                   /\ AdminClear
                   /\ ev' = AdminEvent("admin_manage_student_confirm",
                                       IF deleted.result THEN "deleted" ELSE "error")
              ELSE /\ AdminClear
                   /\ ev' = AdminEvent("admin_manage_student_confirm", "error")
                   /\ UNCHANGED <<users, attendance, registrations, users2, sessions>>
         ELSE IF text \in NoTexts \/ Lower(text) \in NoWords
         THEN /\ AdminClear
              /\ ev' = AdminEvent("admin_manage_student_confirm", "declined")
              /\ UNCHANGED <<users, attendance, registrations, users2, sessions>>
         ELSE /\ ev' = AdminEvent("admin_manage_student_confirm", "invalid")
              /\ UNCHANGED <<users, attendance, registrations, users2, sessions>>
              /\ UNCHANGED admin_vars
    /\ UNCHANGED <<now, cfg, pending_action, inflight, last_press>>
    /\ last_text' = message_text
    /\ UNCHANGED <<fsm_state, fsm_data, group_codes, reg_inflight>>
    /\ UNCHANGED <<startup_vars, geocoding_vars, library_vars, task_vars>>

(* A caller applies delete_user_all to chat identity t. *)
delete_user_all_call(t) ==
    LET r == delete_user_all(Db, t)
    IN
    /\ Commit(r.db)
    /\ ev' = Event(t, "delete_user_all", IF r.result THEN "true" ELSE "false", "end", FALSE)
    /\ UNCHANGED <<now, cfg, pending_action, inflight, last_press>>
    /\ UNCHANGED <<fsm_state, fsm_data, group_codes, reg_inflight, last_text>>
    /\ UNCHANGED admin_vars
    /\ UNCHANGED <<startup_vars, geocoding_vars, library_vars, task_vars>>

(* A day passes. *)
DayTick ==
    /\ BakuDate(now) < AUTO_RESET_DAYS + MaxDay
    /\ now' = now + DaySeconds
    /\ ev' = Event(0, "clock", "none", "end", FALSE)
    /\ UNCHANGED <<cfg, users>>
    /\ UNCHANGED <<attendance_vars, registration_vars, admin_vars>>
    /\ UNCHANGED <<startup_vars, geocoding_vars, library_vars, task_vars>>

(* Texts the administrator sends at each step of the students submenu. *)
AdminActionTexts ==
    {CANCEL_TEXT, BTN_DELETE_STUDENT, BTN_DEACTIVATE_STUDENT, BTN_ACTIVATE_STUDENT,
     BTN_LIST_STUDENTS, "xyz"}

CodeOrIdTexts == {"1", "abc1234", "xyz9876", "7", ""}

ConfirmTexts == {YES_TEXT, "X Xeyr", "NO", "maybe"}

(* The rows of the worker before the first step: with or without a legacy *)
(* profile (then an attendance row and possibly a registration-log row     *)
(* dated 121 days ago, 120 days ago or today), with or without a GPS       *)
(* profile and its session.                                                *)
WorkerSession ==
    [id |-> 2, user_id |-> 2, start_time |-> DaySeconds + FirstDayInstants[1],
     start_lat |-> PNear.lat, start_lon |-> PNear.lon,
     end_time |-> NULL, end_lat |-> NULL, end_lon |-> NULL,
     duration_min |-> NULL, distance_m |-> NULL]

WorkerAttendance(c) ==
    [id |-> 2, user_id |-> c, date |-> 1, giris_time |-> DaySeconds + FirstDayInstants[1],
     cixis_time |-> NULL]


InitAdmin ==
    /\ now = (AUTO_RESET_DAYS + 1) * DaySeconds + FirstDayInstants[1]
    /\ cfg \in Configs
    /\ \E legacy \in BOOLEAN, gps \in BOOLEAN, logged \in BOOLEAN :
       \E last \in {0, 1, AUTO_RESET_DAYS + 1} :
         /\ users = [c \in Chats |-> IF c = Colleague \/ legacy THEN SeedProfile(c) ELSE NoProfile]
         /\ registrations =
              {SeedRegistration(Colleague)}
              \cup {[SeedRegistration(c) EXCEPT !.date = last] : c \in {w \in Workers : legacy /\ logged}}
         /\ attendance =
              {ColleagueAttendance} \cup {WorkerAttendance(c) : c \in {w \in Workers : legacy}}
         /\ users2 = [c \in Chats |-> IF c = Colleague THEN 1 ELSE IF gps THEN 2 ELSE 0]
         /\ sessions = {ColleagueSession} \cup (IF gps THEN {WorkerSession} ELSE {})
    /\ pending_action = [c \in Chats |-> NoPending]
    /\ inflight = [c \in Chats |-> {}]
    /\ ev = Event(0, "start", "none", "end", FALSE)
    /\ last_press = [c \in Chats |-> "none"]
    /\ fsm_state = [c \in Chats |-> "none"]
    /\ fsm_data = [c \in Chats |-> NoData]
    /\ group_codes = SeedGroupCodes
    /\ reg_inflight = [c \in Chats |-> {}]
    /\ last_text = ""
    /\ admin_state = "none"
    /\ admin_data = NoAdminData
    /\ StartupIdle
    /\ GEOCODING_ENABLED = FALSE
    /\ GeocodingIdle
    /\ fn_call = NoCall
    /\ reminders = {}

NextAdmin ==
    \/ DayTick
    \/ \E c \in Workers : handle_start(c)
    \/ btn_manage_students
    \/ \E t \in AdminActionTexts : admin_manage_student_action(t)
    \/ \E t \in CodeOrIdTexts : admin_manage_student_code_or_id(t)
    \/ \E t \in ConfirmTexts : admin_manage_student_confirm(t)
    \/ \E t \in Chats : delete_user_all_call(t)

SpecAdmin == InitAdmin /\ [][NextAdmin]_vars

(* ------------------- single-instance guard: the steps ------------------ *)
ProcAlive(p) == lock_proc[p].pc \in AcquireSteps \cup {"running"}

is_pid_running(pid) == pid > 0 /\ pid \in Procs /\ ProcAlive(pid)

(* What a start attempt finds at the path when it begins: nothing, a file  *)
(* nothing is written in yet, the pid of a live process or the pid of a    *)
(* dead one.                                                               *)
MarkerFound ==
    IF ~lock_file.exists THEN "free"
    ELSE IF lock_file.content = 0 THEN "unwritten"
    ELSE IF ProcAlive(lock_file.content) THEN "live"
    ELSE "stale"

(* main() calls acquire_single_instance_lock(). *)
StartProcess(p) ==
    /\ lock_proc[p].pc = "idle"
    /\ lock_proc' = [lock_proc EXCEPT ![p] =
                        [pc |-> "create", pid |-> 0, found |-> MarkerFound,
                         after |-> {q \in Procs : lock_proc[q].pc = "running"},
                         retried |-> "no"]]
    /\ UNCHANGED lock_file
    /\ UNCHANGED <<bot_vars, geocoding_vars, library_vars, task_vars>>

(* os.open(LOCK_FILE_PATH, O_CREAT | O_EXCL | O_WRONLY) *)
LockCreate(p) ==
    /\ lock_proc[p].pc = "create"
    /\ IF lock_file.exists
         THEN /\ lock_proc' = [lock_proc EXCEPT ![p] = [lock_proc[p] EXCEPT !.pc = "read"]]
              /\ UNCHANGED lock_file
         ELSE /\ lock_file' = [exists |-> TRUE, inode |-> p, content |-> 0]
              /\ lock_proc' = [lock_proc EXCEPT ![p] = [lock_proc[p] EXCEPT !.pc = "write"]]
    /\ UNCHANGED <<bot_vars, geocoding_vars, library_vars, task_vars>>

(* os.write(fd, pid); os.close(fd); return True.  The descriptor names the *)
(* file this process created, which may no longer be the one at the path.  *)
LockWrite(p) ==
    /\ lock_proc[p].pc = "write"
    /\ lock_file' = IF lock_file.exists /\ lock_file.inode = p
                    THEN [lock_file EXCEPT !.content = p]
                    ELSE lock_file
    /\ lock_proc' = [lock_proc EXCEPT ![p] = [lock_proc[p] EXCEPT !.pc = "running", !.retried = "no"]]
    /\ UNCHANGED <<bot_vars, geocoding_vars, library_vars, task_vars>>

(* open(LOCK_FILE_PATH).read(): a missing file or a text that is not a     *)
(* number leaves nothing to probe.                                         *)
LockRead(p) ==
    /\ lock_proc[p].pc = "read"
    /\ lock_proc' = [lock_proc EXCEPT ![p] =
          IF lock_file.exists /\ lock_file.content # 0
          THEN [lock_proc[p] EXCEPT !.pc = "probe", !.pid = lock_file.content]
          ELSE [lock_proc[p] EXCEPT !.pc = "remove"]]
    /\ UNCHANGED lock_file
    /\ UNCHANGED <<bot_vars, geocoding_vars, library_vars, task_vars>>

(* _is_pid_running(pid): return False when the recorded process lives. *)
LockProbe(p) ==
    /\ lock_proc[p].pc = "probe"
    /\ lock_proc' = [lock_proc EXCEPT ![p] =
          IF is_pid_running(lock_proc[p].pid)
          THEN [lock_proc[p] EXCEPT !.pc = "refused", !.pid = 0, !.retried = "no"]
          ELSE [lock_proc[p] EXCEPT !.pc = "remove", !.pid = 0]]
    /\ UNCHANGED lock_file
    /\ UNCHANGED <<bot_vars, geocoding_vars, library_vars, task_vars>>

(* os.remove(LOCK_FILE_PATH): on failure return False, else                *)
(* return acquire_single_instance_lock(), the whole function again.        *)
LockRemove(p) ==
    /\ lock_proc[p].pc = "remove"
    /\ IF lock_file.exists
         THEN /\ lock_file' = NoFile
              /\ lock_proc' = [lock_proc EXCEPT ![p] = [lock_proc[p] EXCEPT !.pc = "create",
                                                                            !.retried = IF @ = "no" THEN "once" ELSE "again"]]
         ELSE /\ lock_proc' = [lock_proc EXCEPT ![p] = [lock_proc[p] EXCEPT !.pc = "refused",
                                                                            !.retried = "no"]]
              /\ UNCHANGED lock_file
    /\ UNCHANGED <<bot_vars, geocoding_vars, library_vars, task_vars>>

(* Clean exit of a running process: atexit runs                            *)
(* release_single_instance_lock, which removes whatever is at the path.    *)
release_single_instance_lock(p) ==
    /\ lock_proc[p].pc = "running"
    /\ lock_file' = NoFile
    /\ lock_proc' = [lock_proc EXCEPT ![p] = [lock_proc[p] EXCEPT !.pc = "exited"]]
    /\ UNCHANGED <<bot_vars, geocoding_vars, library_vars, task_vars>>

(* The process is killed; nothing is cleaned up. *)
KillProcess(p) ==
    /\ ProcAlive(p)
    /\ lock_proc' = [lock_proc EXCEPT ![p].pc = "killed", ![p].pid = 0, ![p].retried = "no"]
    /\ UNCHANGED lock_file
    /\ UNCHANGED <<bot_vars, geocoding_vars, library_vars, task_vars>>

InitLock ==
    /\ Init
    /\ ~cfg.postgres
    /\ \A c \in Workers : ~HasProfile(c)

NextLock ==
    \/ \E p \in Procs : StartProcess(p)
    \/ \E p \in Procs : LockCreate(p)
    \/ \E p \in Procs : LockWrite(p)
    \/ \E p \in Procs : LockRead(p)
    \/ \E p \in Procs : LockProbe(p)
    \/ \E p \in Procs : LockRemove(p)
    \/ \E p \in Procs : release_single_instance_lock(p)
    \/ \E p \in Procs : KillProcess(p)

SpecLock == InitLock /\ [][NextLock]_vars

(* -------------------------- geocoding: the steps ----------------------- *)
TTL == HalfSeconds(GEOCODING_CACHE_TTL_SEC)

(* GeocodingCache._is_expired *)
is_expired(timestamp) == geo_clock - timestamp > TTL

(* RateLimiter.__init__: 1.0 / requests_per_second, 0 for no limit. *)
min_interval == IF GEOCODING_RPS > 0 THEN HalfSeconds(1) \div GEOCODING_RPS ELSE 0

wait_time_none(time_since_last) == 0

wait_time(time_since_last) == min_interval - time_since_last

(* What a provider answers: an address, or nothing (no result, an error    *)
(* status, a timeout).                                                     *)
ProviderAnswers == {"Nizami kucesi 1", ""}

(* reverse_geocode up to its first suspension: the enabled test and        *)
(* _cache.get, which drops the entry it finds expired.                     *)
reverse_geocode(t, c) ==
    LET key == GeoKey(c)
        entry == cache[key]
        hit == entry.address # "" /\ ~is_expired(entry.timestamp)
        call == [geo_task[t] EXCEPT !.coord = c, !.started = geo_clock]
    IN
    /\ geo_task[t].pc = "idle"
    /\ \A earlier \in 1 .. t - 1 : geo_task[earlier].pc # "idle"
    /\ IF ~GEOCODING_ENABLED
         THEN /\ geo_task' = [geo_task EXCEPT ![t] = [call EXCEPT !.pc = "done"]]
              /\ UNCHANGED cache
         ELSE IF hit
         THEN /\ geo_task' = [geo_task EXCEPT ![t] =
                    [call EXCEPT !.pc = "done", !.result = entry.address, !.cached = TRUE]]
              /\ UNCHANGED cache
         ELSE /\ geo_task' = [geo_task EXCEPT ![t] = [call EXCEPT !.pc = "limiter"]]
              /\ cache' = [cache EXCEPT ![key] = NoEntry]
    /\ UNCHANGED <<GEOCODING_ENABLED, geo_clock, rate_limiter, geo_requests>>
    /\ UNCHANGED <<bot_vars, startup_vars, library_vars, task_vars>>

(* RateLimiter.acquire from taking the lock to its sleep, or to its return *)
(* when no sleep is due.                                                   *)
acquire(t) ==
    LET time_since_last == geo_clock - rate_limiter.last_request_time
    IN
    /\ geo_task[t].pc = "limiter"
    /\ rate_limiter.locked_by = 0
    /\ IF min_interval > 0 /\ time_since_last < min_interval
         THEN /\ rate_limiter' = [rate_limiter EXCEPT !.locked_by = t,
                                    !.wake = geo_clock + wait_time(time_since_last)]
              /\ geo_task' = [geo_task EXCEPT ![t].pc = "sleeping", ![t].slept = TRUE]
         ELSE /\ rate_limiter' = [rate_limiter EXCEPT !.last_request_time =
                                    IF min_interval > 0 THEN geo_clock ELSE @]
              /\ geo_task' = [geo_task EXCEPT ![t].pc = "fetch", ![t].released_at = geo_clock]
    /\ UNCHANGED <<GEOCODING_ENABLED, geo_clock, cache, geo_requests>>
    /\ UNCHANGED <<bot_vars, startup_vars, library_vars, task_vars>>

(* asyncio.sleep(wait_time) is over: stamp the time, leave the lock. *)
acquire_wake(t) ==
    /\ geo_task[t].pc = "sleeping"
    /\ rate_limiter.locked_by = t
    /\ geo_clock >= rate_limiter.wake
    /\ rate_limiter' = [last_request_time |-> geo_clock, locked_by |-> 0, wake |-> 0]
    /\ geo_task' = [geo_task EXCEPT ![t].pc = "fetch", ![t].released_at = geo_clock]
    /\ UNCHANGED <<GEOCODING_ENABLED, geo_clock, cache, geo_requests>>
    /\ UNCHANGED <<bot_vars, startup_vars, library_vars, task_vars>>

(* session.get(url, params): the request leaves, with the coordinates as   *)
(* given.                                                                  *)
fetch_send(t) ==
    /\ geo_task[t].pc = "fetch"
    /\ geo_requests' = geo_requests \cup
          {[task |-> t, coord |-> geo_task[t].coord]}
    /\ geo_task' = [geo_task EXCEPT ![t].pc = "waiting"]
    /\ UNCHANGED <<GEOCODING_ENABLED, geo_clock, cache, rate_limiter>>
    /\ UNCHANGED <<bot_vars, startup_vars, library_vars, task_vars>>

(* The provider's answer arrives; an address is stored by _cache.set. *)
fetch_done(t, address) ==
    /\ geo_task[t].pc = "waiting"
    /\ cache' = IF address # ""
                THEN [cache EXCEPT ![GeoKey(geo_task[t].coord)] =
                        [address |-> address, timestamp |-> geo_clock]]
                ELSE cache
    /\ geo_task' = [geo_task EXCEPT ![t].pc = "done", ![t].result = address]
    /\ UNCHANGED <<GEOCODING_ENABLED, geo_clock, rate_limiter, geo_requests>>
    /\ UNCHANGED <<bot_vars, startup_vars, library_vars, task_vars>>

(* cleanup_expired_cache: GeocodingCache.clear_expired *)
cleanup_expired_cache ==
    /\ \E k \in GeoKeys : cache[k] # NoEntry /\ is_expired(cache[k].timestamp)
    /\ cache' = [k \in GeoKeys |->
                   IF cache[k] # NoEntry /\ is_expired(cache[k].timestamp)
                   THEN NoEntry ELSE cache[k]]
    /\ UNCHANGED <<GEOCODING_ENABLED, geo_clock, rate_limiter, geo_task, geo_requests>>
    /\ UNCHANGED <<bot_vars, startup_vars, library_vars, task_vars>>

(* Time passes: half a second, or the cache's time to live.  The clock     *)
(* visits a few half seconds after the first call and a few after the      *)
(* jump, and is not followed once every lookup has returned.               *)
GeoTick(d) ==
    /\ \E t \in GeoTasks : geo_task[t].pc # "idle"
    /\ \E t \in GeoTasks : geo_task[t].pc # "done"
    /\ LET later == geo_clock + d
            offset == IF later >= GeoStart + TTL THEN later - (GeoStart + TTL)
                      ELSE later - GeoStart
       IN  offset <= MaxGeoTicks
    /\ geo_clock' = geo_clock + d
    /\ UNCHANGED <<GEOCODING_ENABLED, cache, rate_limiter, geo_task, geo_requests>>
    /\ UNCHANGED <<bot_vars, startup_vars, library_vars, task_vars>>

InitGeo ==
    /\ BotStart
    /\ ~cfg.postgres
    /\ \A c \in Workers : ~HasProfile(c)
    /\ StartupIdle
    /\ GEOCODING_ENABLED \in BOOLEAN
    /\ GeocodingIdle
    /\ fn_call = NoCall
    /\ reminders = {}

NextGeo ==
    \/ \E d \in {1, TTL} : GeoTick(d)
    \/ \E t \in GeoTasks : \E c \in GeoCoords : reverse_geocode(t, c)
    \/ \E t \in GeoTasks : acquire(t)
    \/ \E t \in GeoTasks : acquire_wake(t)
    \/ \E t \in GeoTasks : fetch_send(t)
    \/ \E t \in GeoTasks : \E a \in ProviderAnswers : fetch_done(t, a)
    \/ cleanup_expired_cache

SpecGeo == InitGeo /\ [][NextGeo]_vars

LOCATION_TOLERANCE_M == 50

(* ----------------------------- rule engine ----------------------------- *)
INACTIVE_TEXT == "Kursdan cixarilib"

NO_CHECKIN_TEXT == "Giris yoxdur"

LATE_CHECKIN_TEXT == "Giris deadline-dan sonra"

LATE_CHECKOUT_TEXT == "Cixis deadline-dan sonra"

SHORT_STAY_TEXT == "Minimum is muddeti pozulub"

MOVED_TEXT == "Cixis ferqli yerde"

(* s.split(":") *)
RECURSIVE SplitColon(_)
SplitColon(s) ==
    LET colons == {i \in 1..Len(s) : CharAt(s, i) = ":"}
        first == CHOOSE i \in colons : \A j \in colons : i <= j
    IN  IF colons = {} THEN <<s>>
        ELSE <<SubSeq(s, 1, first - 1)>> \o SplitColon(SubSeq(s, first + 1, Len(s)))

(* A field of one or two digits below limit, as strptime reads %H, %M, %S. *)
TimeField(part, limit) == IsDigit(part) /\ Len(part) <= 2 /\ ToInt(part) < limit

(* datetime.strptime(s, "%H:%M:%S"), else datetime.strptime(s, "%H:%M"),   *)
(* else None: the seconds since midnight, NULL for None.                   *)
strptime_time(s) ==
    LET parts == SplitColon(s)
    IN  IF /\ Len(parts) = 3 /\ TimeField(parts[1], 24)
           /\ TimeField(parts[2], 60) /\ TimeField(parts[3], 62)
        THEN HourSeconds * ToInt(parts[1]) + 60 * ToInt(parts[2]) + ToInt(parts[3])
        ELSE IF Len(parts) = 2 /\ TimeField(parts[1], 24) /\ TimeField(parts[2], 60)
        THEN HourSeconds * ToInt(parts[1]) + 60 * ToInt(parts[2])
        ELSE NULL

(* is_active == 0 *)
Inactive_never(is_active) == FALSE

Inactive(is_active) == is_active = 0

(* hour >= deadline *)
AtOrAfter_strict(hour, deadline) == hour > deadline

AtOrAfter(hour, deadline) == hour >= deadline

(* int(time_parts[0]) raises on a text that is not a number. *)
HourRaises(time) == Len(SplitColon(time)) >= 2 /\ ~IsDigit(SplitColon(time)[1])

HourLate(time, deadline) ==
    /\ Len(SplitColon(time)) >= 2
    /\ AtOrAfter(ToInt(SplitColon(time)[1]), deadline)

(* The violations in the order the function appends them; an exception     *)
(* ends the checks and keeps what was appended before it.                  *)
check_rules_violation(giris_time, cixis_time, giris, cixis, is_active, checkin_deadline, checkout_deadline, min_work_hours, location_tolerance) ==
    LET late_in == IF HourLate(giris_time, checkin_deadline)
                   THEN <<LATE_CHECKIN_TEXT \o " (" \o giris_time \o ")">> ELSE <<>>
        late_out == IF HourLate(cixis_time, checkout_deadline)
                    THEN <<LATE_CHECKOUT_TEXT \o " (" \o cixis_time \o ")">> ELSE <<>>
        giris_dt == strptime_time(giris_time)
        cixis_dt == strptime_time(cixis_time)
        short == IF /\ giris_dt # NULL /\ cixis_dt # NULL
                    /\ cixis_dt - giris_dt < min_work_hours * HourSeconds
                 THEN <<SHORT_STAY_TEXT>> ELSE <<>>
        moved == IF /\ giris.lat # NULL /\ giris.lon # NULL
                    /\ cixis.lat # NULL /\ cixis.lon # NULL
                    /\ haversine_m(giris.lat, giris.lon, cixis.lat, cixis.lon)
                         > location_tolerance
                 THEN <<MOVED_TEXT>> ELSE <<>>
        violations == IF HourRaises(giris_time) THEN <<>>
                      ELSE IF cixis_time = "" THEN late_in
                      ELSE IF HourRaises(cixis_time) THEN late_in
                      ELSE late_in \o late_out \o short \o moved
    IN  IF Inactive(is_active)
        THEN [status |-> "inactive", violations |-> <<INACTIVE_TEXT>>]
        ELSE IF giris_time = ""
        THEN [status |-> "violation", violations |-> <<NO_CHECKIN_TEXT>>]
        ELSE IF violations # <<>>
        THEN [status |-> "violation", violations |-> violations]
        ELSE [status |-> "ok", violations |-> <<>>]

(* The times, coordinates and thresholds the rule engine is called with;   *)
(* "" stands for a missing time, NULL for a missing coordinate.            *)
ReportTimes ==
    {"", "08:30:00", "10:59:59", "11:00:00", "16:29:59", "18:59:59", "19:00:00",
     "25:00:00", "9:05", "ab:cd:ef"}

ReportPoints ==
    {[lat |-> NULL, lon |-> NULL], [lat |-> WORKPLACE_LAT, lon |-> NULL],
     [lat |-> WORKPLACE_LAT, lon |-> WORKPLACE_LON],
     [lat |-> WORKPLACE_LAT + LOCATION_TOLERANCE_M, lon |-> WORKPLACE_LON],
     [lat |-> WORKPLACE_LAT + LOCATION_TOLERANCE_M + 1, lon |-> WORKPLACE_LON]}

call_check_rules_violation(giris_time, cixis_time, giris, cixis, is_active, min_work_hours) ==
    /\ fn_call = NoCall
    /\ fn_call' =
         [NoCall EXCEPT
            !.fn = "check_rules_violation",
            !.rules =
              [args |-> [giris_time |-> giris_time, cixis_time |-> cixis_time,
                         giris |-> giris, cixis |-> cixis, is_active |-> is_active,
                         min_work_hours |-> min_work_hours],
               result |-> check_rules_violation(giris_time, cixis_time, giris, cixis,
                             is_active, CHECKIN_DEADLINE_HOUR, CHECKOUT_DEADLINE_HOUR,
                             min_work_hours, LOCATION_TOLERANCE_M)]]
    /\ UNCHANGED <<bot_vars, startup_vars, geocoding_vars, task_vars>>

(* ------------------------- phone numbers, alone ------------------------ *)
(* The texts a registrant may type: a prefix, two digits where the operator *)
(* code stands, and the rest, either bare or dressed with the spaces,       *)
(* dashes and parentheses the function removes.                             *)
PhonePrefixes == {"", "+994", "994", "0", "+", "00"}

PhoneCodes == OperatorCodes \cup {"40", "05"}

PhoneTails == {"1234567", "123456", "12345678", "12a4567", "123-45 67"}

PhoneText(prefix, code, tail, dressed) ==
    IF dressed THEN " " \o prefix \o " (" \o code \o ") " \o tail \o " "
    ELSE prefix \o code \o tail

call_validate_and_normalize_phone(phone) ==
    /\ fn_call = NoCall
    /\ fn_call' = [NoCall EXCEPT
                      !.fn = "validate_and_normalize_phone",
                      !.phone = [args |-> [phone |-> phone],
                                 result |-> validate_and_normalize_phone(phone)]]
    /\ UNCHANGED <<bot_vars, startup_vars, geocoding_vars, task_vars>>

(* ----------------------------- chunk_send ------------------------------ *)
(* A text is kept as its length and the positions (from 0) of its newline *)
(* characters: chunk_send looks at nothing else. A message is the slice   *)
(* [from, to) of the text.                                                *)
TG_CHUNK_LIMIT == 3500

MaxLines == 3

LineLengths == {0, 1, 1750, TG_CHUNK_LIMIT - 1, TG_CHUNK_LIMIT, TG_CHUNK_LIMIT + 1}

RECURSIVE LineStart(_, _)
LineStart(lines, i) == IF i = 1 THEN 0 ELSE LineStart(lines, i - 1) + lines[i - 1] + 1

(* "\n".join(lines), for lines of the given lengths *)
JoinLines(lines) ==
    [len |-> LineStart(lines, Len(lines)) + lines[Len(lines)],
     newlines |-> {LineStart(lines, i) - 1 : i \in 2..Len(lines)},
     lines |-> lines]

Texts == {JoinLines(lines) : lines \in UNION {[1..n -> LineLengths] : n \in 1..MaxLines}}

(* chunk.rfind("\n") for chunk = text[from:to], as a position of the text *)
rfind_newline_none(text, from, to) == NULL

rfind_newline(text, from, to) ==
    LET found == {p \in text.newlines : from <= p /\ p < to}
    IN  IF found = {} THEN NULL ELSE CHOOSE p \in found : \A q \in found : q <= p

(* s[cut:].lstrip("\n"): where the rest of the text begins *)
LstripNewlines(text, cut) ==
    CHOOSE p \in cut..text.len :
        /\ \A q \in cut..(p - 1) : q \in text.newlines
        /\ p = text.len \/ p \notin text.newlines

RECURSIVE chunk_send_from(_, _)
chunk_send_from(text, s) ==
    IF s >= text.len THEN <<>>
    ELSE LET chunk_end == IF s + TG_CHUNK_LIMIT < text.len THEN s + TG_CHUNK_LIMIT
                          ELSE text.len
             found == rfind_newline(text, s, chunk_end)
             cut == IF found = NULL THEN chunk_end ELSE found
         IN  <<[from |-> s, to |-> cut]>> \o chunk_send_from(text, LstripNewlines(text, cut))

chunk_send(text) == chunk_send_from(text, 0)

call_chunk_send(text) ==
    /\ fn_call = NoCall
    /\ fn_call' = [NoCall EXCEPT
                      !.fn = "chunk_send",
                      !.chunks = [args |-> [text |-> text], result |-> chunk_send(text)]]
    /\ UNCHANGED <<bot_vars, startup_vars, geocoding_vars, task_vars>>

(* --------------------------- multi-day report -------------------------- *)
(* users.registered_at: every seeded profile was inserted on day 0. *)
registered_at(c) == SeedRegistration(c).date

(* One row of get_daily_report_for_excel: the profile, LEFT JOINed to the  *)
(* attendance row of the date and to a session the database attributes to *)
(* the date.  a and s are the joined rows, NoRow when the join found none. *)
ExcelRow(c, a, s) ==
    [telegram_id |-> c, code |-> users[c].code, is_active |-> users[c].is_active,
     giris_time |-> IF a = NoRow THEN NULL ELSE a.giris_time,
     cixis_time |-> IF a = NoRow THEN NULL ELSE a.cixis_time,
     start_lat |-> IF s = NoRow THEN NULL ELSE s.start_lat,
     start_lon |-> IF s = NoRow THEN NULL ELSE s.start_lon,
     end_lat |-> IF s = NoRow THEN NULL ELSE s.end_lat,
     end_lon |-> IF s = NoRow THEN NULL ELSE s.end_lon]

LeftJoin(rows) == IF rows = {} THEN {NoRow} ELSE rows

(* The rows of the roster for one date; their order (code, name) is not    *)
(* kept.                                                                   *)
get_daily_report_for_excel(date) ==
    UNION { { ExcelRow(c, a, s) :
                a \in LeftJoin({q \in attendance : q.user_id = users[c].id /\ q.date = date}),
                s \in LeftJoin({q \in sessions : /\ users2[c] # 0
                                                 /\ q.user_id = users2[c]
                                                 /\ StoredDate(q.start_time) = date}) }
            : c \in {q \in Chats : HasProfile(q) /\ registered_at(q) <= date} }

has_real_day_data_always(r) == TRUE

has_real_day_data(r) ==
    \/ r.giris_time # NULL
    \/ r.cixis_time # NULL
    \/ r.start_lat # NULL
    \/ r.start_lon # NULL
    \/ r.end_lat # NULL
    \/ r.end_lon # NULL

(* r['date'] = d *)
WithDate(r, d) ==
    [telegram_id |-> r.telegram_id, code |-> r.code, is_active |-> r.is_active,
     giris_time |-> r.giris_time, cixis_time |-> r.cixis_time,
     start_lat |-> r.start_lat, start_lon |-> r.start_lon,
     end_lat |-> r.end_lat, end_lon |-> r.end_lon, date |-> d]

(* The last date of the period: a weekly report runs for seven days from   *)
(* its start, a custom one to the date the administrator gave.             *)
PeriodEnd(period_type, start_date, end_date) ==
    IF period_type = "weekly" THEN start_date + 6 ELSE end_date

(* report_data of admin_period_format; code "" is no restriction. *)
report_data(period_type, start_date, end_date, code) ==
    UNION { { WithDate(r, d) :
                r \in {q \in get_daily_report_for_excel(d) :
                          /\ code = "" \/ q.code = code
                          /\ has_real_day_data(q)} }
            : d \in start_date..PeriodEnd(period_type, start_date, end_date) }

admin_period_format(period_type, start_date, end_date, code) ==
    /\ fn_call = NoCall
    /\ is_admin_configured
    /\ fn_call' = [NoCall EXCEPT
                      !.fn = "admin_period_format",
                      !.report = [args |-> [period_type |-> period_type,
                                            start_date |-> start_date,
                                            end_date |-> PeriodEnd(period_type, start_date,
                                                                   end_date),
                                            code |-> code],
                                  result |-> report_data(period_type, start_date, end_date,
                                                         code)]]
    /\ UNCHANGED <<bot_vars, startup_vars, geocoding_vars, task_vars>>

(* What a registrant did on a day: nothing, a check-in in the small hours  *)
(* or in the morning with no check-out yet, or a morning check-in and an   *)
(* evening check-out.                                                      *)
DayActivities == {"none", "in_early", "in", "in_out"}

ReportDays == 1..MaxDay

CheckinInstant(d, act) ==
    d * DaySeconds + (IF act = "in_early" THEN FirstDayInstants[1] ELSE LaterDayInstants[2])

CheckoutInstant(d) == d * DaySeconds + LaterDayInstants[3]

DayId(c, d) == (d - 1) * Cardinality(Chats) + c

DaySession(c, d, act) ==
    [id |-> DayId(c, d), user_id |-> c, start_time |-> CheckinInstant(d, act),
     start_lat |-> PNear.lat, start_lon |-> PNear.lon,
     end_time |-> IF act = "in_out" THEN CheckoutInstant(d) ELSE NULL,
     end_lat |-> IF act = "in_out" THEN PNear.lat ELSE NULL,
     end_lon |-> IF act = "in_out" THEN PNear.lon ELSE NULL,
     duration_min |-> IF act = "in_out"
                      THEN (CheckoutInstant(d) - CheckinInstant(d, act)) \div 60 ELSE NULL,
     distance_m |-> IF act = "in_out"
                    THEN haversine_m(PNear.lat, PNear.lon, PNear.lat, PNear.lon) ELSE NULL]

DayAttendance(c, d, act) ==
    [id |-> DayId(c, d), user_id |-> c, date |-> d, giris_time |-> CheckinInstant(d, act),
     cixis_time |-> IF act = "in_out" THEN CheckoutInstant(d) ELSE NULL]

(* The tables after MaxDay days of check-ins and check-outs by two         *)
(* registrants of different group codes, on either backend.                *)
InitReport ==
    /\ now = MaxDay * DaySeconds + LaterDayInstants[3]
    /\ cfg \in {[c EXCEPT !.ADMIN_ID = 99] : c \in Configs}
    /\ users = [c \in Chats |->
                  [SeedProfile(c) EXCEPT !.code = IF c = Colleague THEN "K1" ELSE "K2"]]
    /\ users2 = [c \in Chats |-> c]
    /\ \E act \in [Chats \X ReportDays -> DayActivities] :
         /\ sessions = {DaySession(k[1], k[2], act[k]) :
                          k \in {q \in Chats \X ReportDays : act[q] # "none"}}
         /\ attendance = {DayAttendance(k[1], k[2], act[k]) :
                            k \in {q \in Chats \X ReportDays : act[q] # "none"}}
    /\ registrations = {SeedRegistration(c) : c \in Chats}
    /\ pending_action = [c \in Chats |-> NoPending]
    /\ inflight = [c \in Chats |-> {}]
    /\ ev = Event(0, "start", "none", "end", FALSE)
    /\ last_press = [c \in Chats |-> "none"]
    /\ fsm_state = [c \in Chats |-> "none"]
    /\ fsm_data = [c \in Chats |-> NoData]
    /\ group_codes = SeedGroupCodes
    /\ reg_inflight = [c \in Chats |-> {}]
    /\ last_text = ""
    /\ admin_state = "none"
    /\ admin_data = NoAdminData
    /\ StartupIdle
    /\ GEOCODING_ENABLED = FALSE
    /\ GeocodingIdle
    /\ fn_call = NoCall
    /\ reminders = {}

NextReport ==
    \E period_type \in {"custom", "weekly"}, code \in {"", "K1", "K2", "K9"} :
    \E start_date \in 0..MaxDay, end_date \in 0..MaxDay :
        admin_period_format(period_type, start_date, end_date, code)

SpecReport == InitReport /\ [][NextReport]_vars

(* ------------------- administrator's menus, any sender ------------------ *)
(* The handlers below are written for any chat of Chats as the sender; the *)
(* sender's dialogue is kept in fsm_state and fsm_data, as aiogram keeps   *)
(* one state and one data dictionary per chat.  A handler registered       *)
(* without a state filter receives a text only if no state handler         *)
(* registered before it claims the text: the handlers of the registration  *)
(* dialogue come first, then the menu buttons and AdminAddG, then          *)
(* /editprofile and /addgcode, then AdminManageGroup.                      *)
BTN_ADD_GROUP_CODE == "+ Qrup kodu elave et"

BTN_DELETE_GROUP_CODE == "Qrup kodu sil"

BTN_SHOW_GROUP_CODES == "Qrup kodlarini goster"

RegStates == {"profession", "code", "name", "fin", "document_series_number", "phone_number"}

AdminAddGStates == {"AdminAddG.profession", "AdminAddG.code"}

EditProfileStates == {"EditProfile.field", "EditProfile.new_value"}

AdminManageGroupStates ==
    {"AdminManageGroup.action", "AdminManageGroup.profession", "AdminManageGroup.date",
     "AdminManageGroup.code"}

MenuEvent(c, h, o) == Event(c, h, o, "end", FALSE)

(* Dates the administrator types, with the day each stands for; day 0 is   *)
(* 2025-01-01.                                                             *)
IsoDates == {[text |-> "2025-01-01", day |-> 0], [text |-> "2025-05-02", day |-> AUTO_RESET_DAYS + 1]}

IsoDay(text) == (CHOOSE k \in IsoDates : k.text = text).day

parse_date_or_today(s) ==
    LET text == Lower(Strip(s))
    IN  IF text \in {"bugun", "bu gun"} THEN BakuDate(now)
        ELSE IF \E k \in IsoDates : k.text = text
        THEN IsoDay(text)
        ELSE NULL

add_group_code_always_inserting(profession, date, code, is_active) ==
    group_codes \cup
       {[id |-> MaxId({g.id : g \in group_codes}) + 1, profession |-> profession,
         date |-> date, code |-> code, expires_at |-> GROUP_CODE_NO_EXPIRY_DATE,
         is_active |-> is_active]}

add_group_code(profession, date, code, is_active) ==
    IF \E g \in group_codes : g.profession = profession /\ g.date = date /\ g.code = code
    THEN { IF g.profession = profession /\ g.date = date /\ g.code = code
             THEN [g EXCEPT !.is_active = is_active, !.expires_at = GROUP_CODE_NO_EXPIRY_DATE]
             ELSE g : g \in group_codes }
    ELSE group_codes \cup
           {[id |-> MaxId({g.id : g \in group_codes}) + 1, profession |-> profession,
             date |-> date, code |-> code, expires_at |-> GROUP_CODE_NO_EXPIRY_DATE,
             is_active |-> is_active]}

delete_group_code(profession, date, code) ==
    {g \in group_codes : ~(g.profession = profession /\ g.date = date /\ g.code = code)}

set_group_code_active(profession, date, code, is_active) ==
    { IF g.profession = profession /\ g.date = date /\ g.code = code
        THEN [g EXCEPT !.is_active = is_active] ELSE g : g \in group_codes }

btn_add_today_code(c) ==
    /\ fsm_state[c] \notin RegStates
    /\ IF is_admin(c)
         THEN /\ fsm_state' = [fsm_state EXCEPT ![c] = "AdminAddG.profession"]
              /\ fsm_data' = [fsm_data EXCEPT ![c] = NoData]
              /\ ev' = MenuEvent(c, "btn_add_today_code", "menu")
         ELSE /\ ev' = MenuEvent(c, "btn_add_today_code", "not_admin")
              /\ UNCHANGED <<fsm_state, fsm_data>>
    /\ UNCHANGED <<now, cfg, users, registrations, group_codes, reg_inflight, last_text>>
    /\ UNCHANGED <<attendance_vars, admin_vars>>
    /\ UNCHANGED <<startup_vars, geocoding_vars, library_vars, task_vars>>

adminadd_pick_prof(c, message_text) ==
    LET text == Strip(message_text)
        chosen == ChosenProfession(text)
    IN
    /\ fsm_state[c] = "AdminAddG.profession"
    /\ IF text = CANCEL_TEXT
         THEN /\ StateClear(c)
              /\ ev' = MenuEvent(c, "adminadd_pick_prof", "cancelled")
         ELSE IF chosen = ""
         THEN /\ ev' = MenuEvent(c, "adminadd_pick_prof", "invalid")
              /\ UNCHANGED <<fsm_state, fsm_data>>
         ELSE /\ fsm_data' = [fsm_data EXCEPT ![c].profession = chosen]
              /\ fsm_state' = [fsm_state EXCEPT ![c] = "AdminAddG.code"]
              /\ ev' = MenuEvent(c, "adminadd_pick_prof", "chosen")
    /\ last_text' = message_text
    /\ UNCHANGED <<now, cfg, users, registrations, group_codes, reg_inflight>>
    /\ UNCHANGED <<attendance_vars, admin_vars>>
    /\ UNCHANGED <<startup_vars, geocoding_vars, library_vars, task_vars>>

adminadd_enter_code(c, message_text) ==
    LET code == Strip(message_text)
        data == fsm_data[c]
        today == IF data.date = NULL THEN BakuDate(now) ELSE data.date
    IN
    /\ fsm_state[c] = "AdminAddG.code"
    /\ IF code = ""
         THEN /\ ev' = MenuEvent(c, "adminadd_enter_code", "empty")
              /\ UNCHANGED <<fsm_state, fsm_data, group_codes>>
         ELSE /\ group_codes' = add_group_code(data.profession, today, code, TRUE)
              /\ StateClear(c)
              /\ ev' = MenuEvent(c, "adminadd_enter_code", "saved")
    /\ last_text' = message_text
    /\ UNCHANGED <<now, cfg, users, registrations, reg_inflight>>
    /\ UNCHANGED <<attendance_vars, admin_vars>>
    /\ UNCHANGED <<startup_vars, geocoding_vars, library_vars, task_vars>>

btn_manage_groups(c) ==
    /\ fsm_state[c] \notin RegStates \cup AdminAddGStates
    /\ IF is_admin(c)
         THEN /\ fsm_state' = [fsm_state EXCEPT ![c] = "AdminManageGroup.action"]
              /\ fsm_data' = [fsm_data EXCEPT ![c] = NoData]
              /\ ev' = MenuEvent(c, "btn_manage_groups", "menu")
         ELSE /\ ev' = MenuEvent(c, "btn_manage_groups", "not_admin")
              /\ UNCHANGED <<fsm_state, fsm_data>>
    /\ UNCHANGED <<now, cfg, users, registrations, group_codes, reg_inflight, last_text>>
    /\ UNCHANGED <<attendance_vars, admin_vars>>
    /\ UNCHANGED <<startup_vars, geocoding_vars, library_vars, task_vars>>

(* The students button pressed by a chat of Chats that is not the          *)
(* administrator.                                                          *)
btn_manage_students_refused(c) ==
    /\ fsm_state[c] \notin RegStates \cup AdminAddGStates
    /\ ~is_admin(c)
    /\ ev' = MenuEvent(c, "btn_manage_students", "not_admin")
    /\ UNCHANGED <<now, cfg, users, registrations, group_codes, reg_inflight, last_text>>
    /\ UNCHANGED <<fsm_state, fsm_data>>
    /\ UNCHANGED <<attendance_vars, admin_vars>>
    /\ UNCHANGED <<startup_vars, geocoding_vars, library_vars, task_vars>>

admin_manage_group_action(c, message_text) ==
    LET text == Strip(message_text)
    IN
    /\ fsm_state[c] = "AdminManageGroup.action"
    /\ IF text = CANCEL_TEXT
         THEN /\ StateClear(c)
              /\ ev' = MenuEvent(c, "admin_manage_group_action", "cancelled")
         ELSE IF text = BTN_ADD_GROUP_CODE
         THEN /\ fsm_data' = [fsm_data EXCEPT ![c].action = "add_code"]
              /\ fsm_state' = [fsm_state EXCEPT ![c] = "AdminManageGroup.profession"]
              /\ ev' = MenuEvent(c, "admin_manage_group_action", "add_code")
         ELSE IF text = BTN_DELETE_GROUP_CODE
         THEN /\ fsm_data' = [fsm_data EXCEPT ![c].action = "delete_code"]
              /\ fsm_state' = [fsm_state EXCEPT ![c] = "AdminManageGroup.profession"]
              /\ ev' = MenuEvent(c, "admin_manage_group_action", "delete_code")
         ELSE IF text = BTN_SHOW_GROUP_CODES
         THEN /\ StateClear(c)
              /\ ev' = MenuEvent(c, "admin_manage_group_action", "listed")
         ELSE /\ ev' = MenuEvent(c, "admin_manage_group_action", "invalid")
              /\ UNCHANGED <<fsm_state, fsm_data>>
    /\ last_text' = message_text
    /\ UNCHANGED <<now, cfg, users, registrations, group_codes, reg_inflight>>
    /\ UNCHANGED <<attendance_vars, admin_vars>>
    /\ UNCHANGED <<startup_vars, geocoding_vars, library_vars, task_vars>>

admin_manage_group_profession(c, message_text) ==
    LET text == Strip(message_text)
        chosen == ChosenProfession(text)
    IN
    /\ fsm_state[c] = "AdminManageGroup.profession"
    /\ IF text = CANCEL_TEXT
         THEN /\ StateClear(c)
              /\ ev' = MenuEvent(c, "admin_manage_group_profession", "cancelled")
         ELSE IF chosen = ""
         THEN /\ ev' = MenuEvent(c, "admin_manage_group_profession", "invalid")
              /\ UNCHANGED <<fsm_state, fsm_data>>
         ELSE /\ fsm_data' = [fsm_data EXCEPT ![c].profession = chosen]
              /\ fsm_state' = [fsm_state EXCEPT ![c] = "AdminManageGroup.date"]
              /\ ev' = MenuEvent(c, "admin_manage_group_profession", "chosen")
    /\ last_text' = message_text
    /\ UNCHANGED <<now, cfg, users, registrations, group_codes, reg_inflight>>
    /\ UNCHANGED <<attendance_vars, admin_vars>>
    /\ UNCHANGED <<startup_vars, geocoding_vars, library_vars, task_vars>>

admin_manage_group_date(c, message_text) ==
    LET date == parse_date_or_today(Strip(message_text))
        action == fsm_data[c].action
    IN
    /\ fsm_state[c] = "AdminManageGroup.date"
    /\ IF date = NULL
         THEN /\ ev' = MenuEvent(c, "admin_manage_group_date", "invalid")
              /\ UNCHANGED <<fsm_state, fsm_data>>
         ELSE IF action = "add_code"
         THEN /\ fsm_data' = [fsm_data EXCEPT ![c].date = date]
              /\ fsm_state' = [fsm_state EXCEPT ![c] = "AdminAddG.code"]
              /\ ev' = MenuEvent(c, "admin_manage_group_date", "add_code")
         ELSE IF action = "delete_code"
         THEN /\ fsm_data' = [fsm_data EXCEPT ![c].date = date]
              /\ fsm_state' = [fsm_state EXCEPT ![c] = "AdminManageGroup.code"]
              /\ ev' = MenuEvent(c, "admin_manage_group_date", "delete_code")
         ELSE /\ StateClear(c)
              /\ ev' = MenuEvent(c, "admin_manage_group_date", "error")
    /\ last_text' = message_text
    /\ UNCHANGED <<now, cfg, users, registrations, group_codes, reg_inflight>>
    /\ UNCHANGED <<attendance_vars, admin_vars>>
    /\ UNCHANGED <<startup_vars, geocoding_vars, library_vars, task_vars>>

admin_manage_group_code(c, message_text) ==
    LET code == Strip(message_text)
        data == fsm_data[c]
        remaining == delete_group_code(data.profession, data.date, code)
    IN
    /\ fsm_state[c] = "AdminManageGroup.code"
    /\ IF code = ""
         THEN /\ ev' = MenuEvent(c, "admin_manage_group_code", "empty")
              /\ UNCHANGED <<fsm_state, fsm_data, group_codes>>
         ELSE IF data.action # "delete_code" \/ data.profession = "" \/ data.date = NULL
         THEN /\ StateClear(c)
              /\ ev' = MenuEvent(c, "admin_manage_group_code", "error")
              /\ UNCHANGED group_codes
         ELSE /\ group_codes' = remaining
              /\ StateClear(c)
              /\ ev' = MenuEvent(c, "admin_manage_group_code",
                                 IF remaining # group_codes THEN "deleted" ELSE "not_found")
    /\ last_text' = message_text
    /\ UNCHANGED <<now, cfg, users, registrations, reg_inflight>>
    /\ UNCHANGED <<attendance_vars, admin_vars>>
    /\ UNCHANGED <<startup_vars, geocoding_vars, library_vars, task_vars>>

(* /addgcode "profession" date code [1|0]; parts is the command split by   *)
(* shlex, the command word left out.  The date is stored as it is typed;   *)
(* the texts sent here are ISO dates.                                      *)
match_profession(token) ==
    LET t == Lower(Strip(token))
    IN  FirstProfession({i \in 1..Len(PROFESSIONS) : Lower(PROFESSIONS[i]) = t})

(* The profession /addgcode takes for its first argument: the one at   *)
(* a typed index, the one spelled as typed but for case, else the text. *)
addgcode_profession(prof_raw) ==
    LET idx == ToInt(prof_raw) - 1
        m == match_profession(prof_raw)
    IN  IF IsDigit(prof_raw)
        THEN (IF 0 <= idx /\ idx < Len(PROFESSIONS) THEN PROFESSIONS[idx + 1] ELSE prof_raw)
        ELSE IF m # "" THEN m
        ELSE prof_raw

cmd_addgcode(c, parts) ==
    /\ fsm_state[c] \notin RegStates \cup AdminAddGStates \cup EditProfileStates
    /\ IF ~is_admin(c)
         THEN /\ ev' = MenuEvent(c, "cmd_addgcode", "not_admin")
              /\ UNCHANGED group_codes
         ELSE IF Len(parts) < 3
         THEN /\ ev' = MenuEvent(c, "cmd_addgcode", "usage")
              /\ UNCHANGED group_codes
         ELSE \E prof \in {addgcode_profession(parts[1])} :
              \E date \in {IsoDay(parts[2])} :
                IF \A i \in 1..Len(PROFESSIONS) : PROFESSIONS[i] # prof
                THEN /\ ev' = MenuEvent(c, "cmd_addgcode", "no_profession")
                     /\ UNCHANGED group_codes
                ELSE /\ group_codes' =
                          add_group_code(prof, date, parts[3], ~(Len(parts) >= 4 /\ parts[4] = "0"))
                     /\ ev' = MenuEvent(c, "cmd_addgcode", "saved")
    /\ UNCHANGED <<now, cfg, users, registrations, reg_inflight, last_text>>
    /\ UNCHANGED <<fsm_state, fsm_data>>
    /\ UNCHANGED <<attendance_vars, admin_vars>>
    /\ UNCHANGED <<startup_vars, geocoding_vars, library_vars, task_vars>>

(* /editprofile: a chat other than the administrator is refused, its       *)
(* dialogue is cleared and the administrator, if there is one, is told.    *)
cmd_editprofile(c) ==
    /\ fsm_state[c] \notin RegStates \cup AdminAddGStates
    /\ IF ~is_admin(c)
         THEN /\ StateClear(c)
              /\ ev' = Event(c, "cmd_editprofile", "not_admin", "end", is_admin_configured)
         ELSE IF ~HasProfile(c)
         THEN /\ ev' = MenuEvent(c, "cmd_editprofile", "no_profile")
              /\ UNCHANGED <<fsm_state, fsm_data>>
         ELSE /\ fsm_state' = [fsm_state EXCEPT ![c] = "EditProfile.field"]
              /\ fsm_data' = [fsm_data EXCEPT ![c] = NoData]
              /\ ev' = MenuEvent(c, "cmd_editprofile", "menu")
    /\ UNCHANGED <<now, cfg, users, registrations, group_codes, reg_inflight, last_text>>
    /\ UNCHANGED <<attendance_vars, admin_vars>>
    /\ UNCHANGED <<startup_vars, geocoding_vars, library_vars, task_vars>>

EditFields ==
    {[text |-> "adi deyisdir", field |-> "name"], [text |-> "ad", field |-> "name"],
     [text |-> "fin-i deyisdir", field |-> "fin"], [text |-> "fin", field |-> "fin"]}

editprofile_field(c, message_text) ==
    LET text == Strip(message_text)
        hits == {k \in EditFields : k.text = Lower(text)}
    IN
    /\ fsm_state[c] = "EditProfile.field"
    /\ IF text = CANCEL_TEXT \/ Lower(text) \in {"legv", "cancel"}
         THEN /\ StateClear(c)
              /\ ev' = MenuEvent(c, "editprofile_field", "cancelled")
         ELSE IF hits = {}
         THEN /\ ev' = MenuEvent(c, "editprofile_field", "invalid")
              /\ UNCHANGED <<fsm_state, fsm_data>>
         ELSE /\ fsm_data' = [fsm_data EXCEPT ![c].field = (CHOOSE k \in hits : TRUE).field]
              /\ fsm_state' = [fsm_state EXCEPT ![c] = "EditProfile.new_value"]
              /\ ev' = MenuEvent(c, "editprofile_field", "chosen")
    /\ last_text' = message_text
    /\ UNCHANGED <<now, cfg, users, registrations, group_codes, reg_inflight>>
    /\ UNCHANGED <<attendance_vars, admin_vars>>
    /\ UNCHANGED <<startup_vars, geocoding_vars, library_vars, task_vars>>

editprofile_value(c, message_text) ==
    LET new_value == Strip(message_text)
        field == fsm_data[c].field
        prof == get_user_by_telegram_id(c)
    IN
    /\ fsm_state[c] = "EditProfile.new_value"
    /\ IF new_value = ""
         THEN /\ ev' = MenuEvent(c, "editprofile_value", "empty")
              /\ UNCHANGED <<fsm_state, fsm_data, users>>
         ELSE IF field = ""
         THEN /\ StateClear(c)
              /\ ev' = MenuEvent(c, "editprofile_value", "error")
              /\ UNCHANGED users
         ELSE IF ~HasProfile(c)
         THEN /\ StateClear(c)
              /\ ev' = MenuEvent(c, "editprofile_value", "no_profile")
              /\ UNCHANGED users
         ELSE IF field = "name"
         THEN /\ users' = upsert_user_profile(c, new_value, prof.fin, prof.code, prof.seriya,
                                              prof.phone_number)
              /\ StateClear(c)
              /\ ev' = MenuEvent(c, "editprofile_value", "name")
         ELSE IF Len(new_value) < 7 \/ Len(new_value) > 10
         THEN /\ ev' = MenuEvent(c, "editprofile_value", "invalid_fin")
              /\ UNCHANGED <<fsm_state, fsm_data, users>>
         ELSE /\ users' = upsert_user_profile(c, prof.name, Upper(new_value), prof.code,
                                              prof.seriya, prof.phone_number)
              /\ StateClear(c)
              /\ ev' = MenuEvent(c, "editprofile_value", "fin")
    /\ last_text' = message_text
    /\ UNCHANGED <<now, cfg, registrations, group_codes, reg_inflight>>
    /\ UNCHANGED <<attendance_vars, admin_vars>>
    /\ UNCHANGED <<startup_vars, geocoding_vars, library_vars, task_vars>>

(* Texts sent at each step of the administrator's menus. *)
MenuProfessionTexts == {CANCEL_TEXT, "1", "zzz"}

MenuCodeTexts == {"", "N7"}

GroupActionTexts ==
    {CANCEL_TEXT, BTN_ADD_GROUP_CODE, BTN_DELETE_GROUP_CODE, BTN_SHOW_GROUP_CODES, "zzz"}

DateTexts == {"bugun", "01.01.2025"}

AddgcodeParts ==
    {<<"derzi", "2025-01-01", "K2", "0">>, <<"zzz", "2025-01-01", "N7">>, <<"1">>}

EditFieldTexts == {CANCEL_TEXT, "Ad", "fin"}

EditValueTexts == {"", "Ali", "ab12345"}

(* One database and three ways the administrator is configured: nobody,    *)
(* the colleague's chat, a chat of its own.  Both chats registered on day  *)
(* 0 and the clock shows day 121, so /start resets the worker.             *)
RoleConfigs ==
    {[k EXCEPT !.ADMIN_ID = a] : k \in {q \in Configs : ~q.postgres}, a \in {0, Colleague, AdminChat}}

InitRoles ==
    /\ now = (AUTO_RESET_DAYS + 1) * DaySeconds + FirstDayInstants[1]
    /\ cfg \in RoleConfigs
    /\ users = [c \in Chats |-> SeedProfile(c)]
    /\ registrations = {SeedRegistration(c) : c \in Chats}
    /\ attendance = {ColleagueAttendance}
    /\ users2 = [c \in Chats |-> IF c = Colleague THEN 1 ELSE 0]
    /\ sessions = {ColleagueSession}
    /\ pending_action = [c \in Chats |-> NoPending]
    /\ inflight = [c \in Chats |-> {}]
    /\ ev = Event(0, "start", "none", "end", FALSE)
    /\ last_press = [c \in Chats |-> "none"]
    /\ fsm_state = [c \in Chats |-> "none"]
    /\ fsm_data = [c \in Chats |-> NoData]
    /\ group_codes = SeedGroupCodes
    /\ reg_inflight = [c \in Chats |-> {}]
    /\ last_text = ""
    /\ admin_state = "none"
    /\ admin_data = NoAdminData
    /\ StartupIdle
    /\ GEOCODING_ENABLED = FALSE
    /\ GeocodingIdle
    /\ fn_call = NoCall
    /\ reminders = {}

NextRoles ==
    \/ \E c \in Workers : handle_start(c)
    \/ \E c \in Chats : btn_add_today_code(c)
    \/ \E c \in Chats : \E t \in MenuProfessionTexts : adminadd_pick_prof(c, t)
    \/ \E c \in Chats : \E t \in MenuCodeTexts : adminadd_enter_code(c, t)
    \/ \E c \in Chats : btn_manage_groups(c)
    \/ \E c \in Chats : \E t \in GroupActionTexts : admin_manage_group_action(c, t)
    \/ \E c \in Chats : \E t \in MenuProfessionTexts : admin_manage_group_profession(c, t)
    \/ \E c \in Chats : \E t \in DateTexts : admin_manage_group_date(c, t)
    \/ \E c \in Chats : \E t \in MenuCodeTexts : admin_manage_group_code(c, t)
    \/ \E c \in Chats : \E parts \in AddgcodeParts : cmd_addgcode(c, parts)
    \/ \E c \in Chats : cmd_editprofile(c)
    \/ \E c \in Chats : \E t \in EditFieldTexts : editprofile_field(c, t)
    \/ \E c \in Chats : \E t \in EditValueTexts : editprofile_value(c, t)
    \/ \E c \in Chats : btn_manage_students_refused(c)
    \/ btn_manage_students
    \/ \E t \in AdminActionTexts : admin_manage_student_action(t)
    \/ \E t \in CodeOrIdTexts : admin_manage_student_code_or_id(t)
    \/ \E t \in ConfirmTexts : admin_manage_student_confirm(t)

SpecRoles == InitRoles /\ [][NextRoles]_vars

(* ------------------------- the profile upsert -------------------------- *)
call_upsert_user_profile(telegram_id, name, fin, code, seriya, phone_number) ==
    /\ fn_call = NoCall
    /\ users' = upsert_user_profile(telegram_id, name, fin, code, seriya, phone_number)
    /\ fn_call' = [NoCall EXCEPT !.fn = "upsert_user_profile",
                                 !.profile = [args |-> [telegram_id |-> telegram_id,
                                                        name |-> name, fin |-> fin,
                                                        code |-> code, seriya |-> seriya,
                                                        phone_number |-> phone_number]]]
    /\ ev' = Event(telegram_id, "upsert_user_profile", "done", "end", FALSE)
    /\ UNCHANGED <<now, cfg>>
    /\ UNCHANGED <<attendance_vars, registration_vars, admin_vars>>
    /\ UNCHANGED <<startup_vars, geocoding_vars, task_vars>>

(* The users table before the call: each chat has no row, an active row or *)
(* a deactivated one.                                                      *)
RowKinds == {"none", "active", "inactive"}

InitProfile ==
    /\ now = FirstDayInstants[1]
    /\ cfg \in Configs
    /\ \E kind \in [Chats -> RowKinds] :
         /\ users = [c \in Chats |->
                       IF kind[c] = "none" THEN NoProfile
                       ELSE [SeedProfile(c) EXCEPT !.is_active = (kind[c] = "active")]]
         /\ registrations = {SeedRegistration(c) : c \in {q \in Chats : kind[q] # "none"}}
    /\ attendance = {}
    /\ users2 = [c \in Chats |-> 0]
    /\ sessions = {}
    /\ pending_action = [c \in Chats |-> NoPending]
    /\ inflight = [c \in Chats |-> {}]
    /\ ev = Event(0, "start", "none", "end", FALSE)
    /\ last_press = [c \in Chats |-> "none"]
    /\ fsm_state = [c \in Chats |-> "none"]
    /\ fsm_data = [c \in Chats |-> NoData]
    /\ group_codes = SeedGroupCodes
    /\ reg_inflight = [c \in Chats |-> {}]
    /\ last_text = ""
    /\ admin_state = "none"
    /\ admin_data = NoAdminData
    /\ StartupIdle
    /\ GEOCODING_ENABLED = FALSE
    /\ GeocodingIdle
    /\ fn_call = NoCall
    /\ reminders = {}

ProfileNames == {"Ali Veli", "Veli Ali"}

ProfileFins == {"ABC1234", "QQQ1111"}

ProfileSeriyas == {"AA1234567", "AZE12345678"}

ProfilePhones == {"", "+994551234567"}

NextProfile ==
    \E telegram_id \in Chats, name \in ProfileNames, fin \in ProfileFins :
    \E code \in {"K1", "K2"}, seriya \in ProfileSeriyas, phone_number \in ProfilePhones :
       call_upsert_user_profile(telegram_id, name, fin, code, seriya, phone_number)

SpecProfile == InitProfile /\ [][NextProfile]_vars

(* ------------------------- group code validity ------------------------- *)
call_is_group_code_valid(profession, code, on_date) ==
    /\ fn_call' = [NoCall EXCEPT !.fn = "is_group_code_valid",
                                 !.code_valid =
                                    [args |-> [profession |-> profession, code |-> code,
                                               on_date |-> on_date],
                                     result |-> is_group_code_valid(profession, code, on_date)]]
    /\ ev' = Event(0, "is_group_code_valid", "done", "end", FALSE)
    /\ UNCHANGED <<now, cfg, users>>
    /\ UNCHANGED <<attendance_vars, registration_vars, admin_vars>>
    /\ UNCHANGED <<startup_vars, geocoding_vars, task_vars>>

(* Rows the group-code table may hold for the code K1 of the first         *)
(* profession: dated day 1 or day 2, expiring on day 1, on the default far *)
(* date or never (NULL), active or not.                                    *)
CodeRows ==
    { [id |-> 3, profession |-> PROFESSIONS[1], date |-> d, code |-> "K1", expires_at |-> e,
       is_active |-> a] :
        d \in {1, 2}, e \in {NULL, 1, GROUP_CODE_NO_EXPIRY_DATE}, a \in BOOLEAN }

(* The worker has picked the first profession and is asked for the code;   *)
(* the table holds the second profession's seed row and at most one row of *)
(* CodeRows.                                                               *)
InitCodes ==
    /\ now = DaySeconds + FirstDayInstants[1]
    /\ cfg \in Configs
    /\ users = [c \in Chats |-> IF c = Colleague THEN SeedProfile(c) ELSE NoProfile]
    /\ registrations = {SeedRegistration(Colleague)}
    /\ attendance = {}
    /\ users2 = [c \in Chats |-> 0]
    /\ sessions = {}
    /\ pending_action = [c \in Chats |-> NoPending]
    /\ inflight = [c \in Chats |-> {}]
    /\ ev = Event(0, "start", "none", "end", FALSE)
    /\ last_press = [c \in Chats |-> "none"]
    /\ fsm_state = [c \in Chats |-> IF c \in Workers THEN "code" ELSE "none"]
    /\ fsm_data = [c \in Chats |->
                     IF c \in Workers THEN [NoData EXCEPT !.profession = PROFESSIONS[1]]
                     ELSE NoData]
    /\ \E rows \in {{}} \cup {{g} : g \in CodeRows} :
         group_codes = {g \in SeedGroupCodes : g.profession # PROFESSIONS[1]} \cup rows
    /\ reg_inflight = [c \in Chats |-> {}]
    /\ last_text = ""
    /\ admin_state = "none"
    /\ admin_data = NoAdminData
    /\ StartupIdle
    /\ GEOCODING_ENABLED = FALSE
    /\ GeocodingIdle
    /\ fn_call = NoCall
    /\ reminders = {}

NextCodes ==
    \/ Tick
    \/ \E c \in Workers : \E t \in CodeTexts : reg_enter_code(c, t)
    \/ \E profession \in {PROFESSIONS[1], PROFESSIONS[2]}, code \in {"K1", "K2"} :
       \E on_date \in 0..MaxDay :
          call_is_group_code_valid(profession, code, on_date)

SpecCodes == InitCodes /\ [][NextCodes]_vars

(* -------------------------- check-out reminder ------------------------- *)
(* The sleep of a reminder task is over: it looks for an open session of   *)
(* the user and, if there is one, sends the reminder; sending may fail.    *)
schedule_checkout_reminder_send(sess) == sess # NoRow

schedule_checkout_reminder(r, delivered) ==
    LET sess == get_open_session(r.user2_id)
        sends == schedule_checkout_reminder_send(sess)
    IN
    /\ r \in reminders /\ r.pc = "sleeping"
    /\ now >= r.due
    /\ sends \/ delivered
    /\ reminders' = (reminders \ {r}) \cup {[r EXCEPT !.pc = "done", !.sent = sends /\ delivered]}
    /\ ev' = Event(r.telegram_id, "schedule_checkout_reminder",
                   IF ~sends THEN "checked_out" ELSE IF delivered THEN "sent" ELSE "send_failed",
                   "end", FALSE)
    /\ UNCHANGED <<now, cfg, users>>
    /\ UNCHANGED <<attendance_vars, registration_vars, admin_vars>>
    /\ UNCHANGED <<startup_vars, geocoding_vars, library_vars>>

(* The task is cancelled in its sleep, as at shutdown of the event loop. *)
schedule_checkout_reminder_cancelled(r) ==
    /\ r \in reminders /\ r.pc = "sleeping"
    /\ reminders' = (reminders \ {r}) \cup {[r EXCEPT !.pc = "cancelled"]}
    /\ ev' = Event(r.telegram_id, "schedule_checkout_reminder", "cancelled", "end", FALSE)
    /\ UNCHANGED <<now, cfg, users>>
    /\ UNCHANGED <<attendance_vars, registration_vars, admin_vars>>
    /\ UNCHANGED <<startup_vars, geocoding_vars, library_vars>>

(* The clock with reminders: it also stops when a sleep ends, and on later *)
(* days at the first moment a 02:00 check-in can be checked out.  A task   *)
(* whose sleep is over runs before the clock moves on.                     *)
ReminderInstants ==
    Instants
    \cup { d * DaySeconds + LaterDayInstants[1] + MIN_WORK_DURATION_HOURS * HourSeconds :
             d \in 2..MaxDay }
    \cup { r.due : r \in {q \in reminders : q.pc = "sleeping"} }

ReminderTick ==
    /\ \A c \in Chats : inflight[c] = {} /\ reg_inflight[c] = {}
    /\ \A r \in reminders : r.pc = "sleeping" => r.due > now
    /\ \E t \in ReminderInstants :
         /\ t > now
         /\ \A q \in ReminderInstants : q > now => t <= q
         /\ now' = t
    /\ ev' = Event(0, "clock", "none", "end", FALSE)
    /\ UNCHANGED <<cfg, users, users2, sessions, pending_action, inflight, last_press, attendance>>
    /\ UNCHANGED <<registration_vars, admin_vars>>
    /\ UNCHANGED <<startup_vars, geocoding_vars, library_vars, task_vars>>

(* A registered worker on the SQLite backend. *)
InitReminder == Init /\ ~cfg.postgres /\ \A c \in Workers : HasProfile(c)

NextReminder ==
    \/ ReminderTick
    \/ \E c \in Workers : handle_giris(c)
    \/ \E c \in Workers : handle_cixis(c)
    \/ \E c \in Workers : \E p \in LocationInputs(c) : handle_location(c, p)
    \/ \E c \in Workers : Resume(c)
    \/ \E r \in reminders : \E delivered \in BOOLEAN : schedule_checkout_reminder(r, delivered)
    \/ \E r \in reminders : schedule_checkout_reminder_cancelled(r)

SpecReminder == InitReminder /\ [][NextReminder]_vars

(* ------------- record_giris and record_cixis, called alone -------------- *)
(* What a call of record_giris answers.  The INSERT of a second row for    *)
(* the same (user_id, date) breaks UNIQUE(user_id, date) and raises        *)
(* IntegrityError; the except block then runs a SELECT on the same cursor. *)
(* On SQLite that SELECT answers and the call returns whether giris_time   *)
(* is NULL.  On PostgreSQL the failed INSERT has aborted the connection's  *)
(* transaction and nothing rolls it back, so the SELECT raises             *)
(* InFailedSqlTransaction and the call ends with that exception.           *)
record_giris_result(user_id, date) ==
    LET rows == {a \in attendance : a.user_id = user_id /\ a.date = date}
    IN  IF rows = {} THEN "true"
        ELSE IF cfg.postgres THEN "raised"
        ELSE IF \E a \in rows : a.giris_time = NULL THEN "true"
        ELSE "false"

(* record_cixis answers whether its conditional UPDATE touched a row. *)
record_cixis_result(user_id, date) ==
    IF \E a \in attendance : a.user_id = user_id /\ a.date = date /\ a.cixis_time = NULL
    THEN "true" ELSE "false"

MirrorCall(fn, user_id, date, time, result) ==
    [NoCall EXCEPT !.fn = fn,
                   !.mirror = [args |-> [user_id |-> user_id, date |-> date, time |-> time],
                               result |-> result]]

call_record_giris(user_id, date, time) ==
    /\ attendance' = record_giris(user_id, date, time)
    /\ fn_call' = MirrorCall("record_giris", user_id, date, time, record_giris_result(user_id, date))
    /\ ev' = Event(user_id, "record_giris", "done", "end", FALSE)
    /\ UNCHANGED <<now, cfg, users, users2, sessions, pending_action, inflight, last_press>>
    /\ UNCHANGED <<registration_vars, admin_vars>>
    /\ UNCHANGED <<startup_vars, geocoding_vars, task_vars>>

call_record_cixis(user_id, date, time) ==
    /\ attendance' = record_cixis(user_id, date, time)
    /\ fn_call' = MirrorCall("record_cixis", user_id, date, time, record_cixis_result(user_id, date))
    /\ ev' = Event(user_id, "record_cixis", "done", "end", FALSE)
    /\ UNCHANGED <<now, cfg, users, users2, sessions, pending_action, inflight, last_press>>
    /\ UNCHANGED <<registration_vars, admin_vars>>
    /\ UNCHANGED <<startup_vars, geocoding_vars, task_vars>>

(* The times of day the calls carry and the dates they are made for. *)
MirrorTimes == {FirstDayInstants[1], FirstDayInstants[4]}

MirrorDates == {1, 2}

(* Both chats are registered; the mirror is empty. *)
InitMirror ==
    /\ BotStart
    /\ \A c \in Chats : HasProfile(c)
    /\ StartupIdle
    /\ GEOCODING_ENABLED = FALSE
    /\ GeocodingIdle
    /\ fn_call = NoCall
    /\ reminders = {}

NextMirror ==
    \/ \E c \in Chats, d \in MirrorDates, t \in MirrorTimes : call_record_giris(users[c].id, d, t)
    \/ \E c \in Chats, d \in MirrorDates, t \in MirrorTimes : call_record_cixis(users[c].id, d, t)

SpecMirror == InitMirror /\ [][NextMirror]_vars

(* ----------------- the group-code functions, called alone --------------- *)
(* The highest row id the table hands out. *)
MaxCodeId == 5

GroupCodeCall(fn, profession, date, code, is_active, result) ==
    [NoCall EXCEPT !.fn = fn,
                   !.gcode = [args |-> [profession |-> profession, date |-> date, code |-> code,
                                        is_active |-> is_active],
                              result |-> result]]

(* cursor.rowcount > 0 of the UPDATE or DELETE on one (profession, date, code). *)
GroupCodeAffected(profession, date, code) ==
    \E g \in group_codes : g.profession = profession /\ g.date = date /\ g.code = code

call_add_group_code(profession, date, code, is_active) ==
    /\ GroupCodeAffected(profession, date, code) \/ MaxId({g.id : g \in group_codes}) < MaxCodeId
    /\ group_codes' = add_group_code(profession, date, code, is_active)
    /\ fn_call' = GroupCodeCall("add_group_code", profession, date, code, is_active, TRUE)
    /\ ev' = Event(0, "add_group_code", "done", "end", FALSE)
    /\ UNCHANGED <<now, cfg, users, attendance_vars, admin_vars>>
    /\ UNCHANGED <<fsm_state, fsm_data, registrations, reg_inflight, last_text>>
    /\ UNCHANGED <<startup_vars, geocoding_vars, task_vars>>

call_set_group_code_active(profession, date, code, is_active) ==
    /\ group_codes' = set_group_code_active(profession, date, code, is_active)
    /\ fn_call' = GroupCodeCall("set_group_code_active", profession, date, code, is_active,
                                GroupCodeAffected(profession, date, code))
    /\ ev' = Event(0, "set_group_code_active", "done", "end", FALSE)
    /\ UNCHANGED <<now, cfg, users, attendance_vars, admin_vars>>
    /\ UNCHANGED <<fsm_state, fsm_data, registrations, reg_inflight, last_text>>
    /\ UNCHANGED <<startup_vars, geocoding_vars, task_vars>>

call_delete_group_code(profession, date, code) ==
    /\ group_codes' = delete_group_code(profession, date, code)
    /\ fn_call' = GroupCodeCall("delete_group_code", profession, date, code, FALSE,
                                GroupCodeAffected(profession, date, code))
    /\ ev' = Event(0, "delete_group_code", "done", "end", FALSE)
    /\ UNCHANGED <<now, cfg, users, attendance_vars, admin_vars>>
    /\ UNCHANGED <<fsm_state, fsm_data, registrations, reg_inflight, last_text>>
    /\ UNCHANGED <<startup_vars, geocoding_vars, task_vars>>

(* The calls are made for one profession, two dates and two codes; the     *)
(* table starts with the administrator's two rows of day 0.                *)
GroupCodeDates == {0, 1}

InitGroupCodes == Init /\ ~cfg.postgres /\ \A c \in Workers : HasProfile(c)

GroupCodeCodes == {"K1", "K2"}

NextGroupCodes ==
    \E d \in GroupCodeDates, code \in GroupCodeCodes :
       \/ \E is_active \in BOOLEAN : call_add_group_code(PROFESSIONS[1], d, code, is_active)
       \/ \E is_active \in BOOLEAN : call_set_group_code_active(PROFESSIONS[1], d, code, is_active)
       \/ call_delete_group_code(PROFESSIONS[1], d, code)

SpecGroupCodes == InitGroupCodes /\ [][NextGroupCodes]_vars

(* ------------------------- initialize_pool ------------------------------ *)
(* The PostgreSQL connection pool.  The server accepts the connection on   *)
(* attempt accept_at (counted from 1) and answers every earlier attempt    *)
(* with the error text error.  Waits are in tenths of a second.            *)
POOL_ATTEMPTS == 30

MAX_BACKOFF_DS == 100

(* min(10.0, 1.0 + attempt * 0.7) *)
Backoff(attempt) == Min(MAX_BACKOFF_DS, 10 + attempt * 7)

RetriableErrors == {"starting up", "could not connect", "connection refused"}

(* database.py imports os, sqlite3, datetime, timedelta, typing and Lock:  *)
(* the name time is not bound in the module, so time.sleep(...) raises     *)
(* NameError.                                                              *)
time_is_imported == FALSE

NAME_ERROR == "NameError: name 'time' is not defined"

PoolResult(pg_pool, raised, attempts, sleeps) ==
    [pg_pool |-> pg_pool, raised |-> raised, attempts |-> attempts, sleeps |-> sleeps]

RECURSIVE initialize_pool_from(_, _, _, _)
initialize_pool_from(attempt, accept_at, error, sleeps) ==
    IF attempt >= POOL_ATTEMPTS THEN PoolResult(FALSE, error, attempt, sleeps)
    ELSE IF attempt + 1 >= accept_at THEN PoolResult(TRUE, "", attempt + 1, sleeps)
    ELSE IF error \notin RetriableErrors THEN PoolResult(FALSE, error, attempt + 1, sleeps)
    ELSE IF ~time_is_imported THEN PoolResult(FALSE, NAME_ERROR, attempt + 1, sleeps)
    ELSE initialize_pool_from(attempt + 1, accept_at, error, Append(sleeps, Backoff(attempt)))

initialize_pool(pg_pool, accept_at, error) ==
    IF pg_pool THEN PoolResult(TRUE, "", 0, <<>>)
    ELSE initialize_pool_from(0, accept_at, error, <<>>)

(* _pg_pool is what the previous call left. *)
call_initialize_pool(accept_at, error) ==
    /\ fn_call' = [NoCall EXCEPT !.fn = "initialize_pool",
                                 !.pool = [args |-> [pg_pool |-> fn_call.pool.result.pg_pool,
                                                     accept_at |-> accept_at, error |-> error],
                                           result |-> initialize_pool(fn_call.pool.result.pg_pool,
                                                                      accept_at, error)]]
    /\ UNCHANGED <<bot_vars, startup_vars, geocoding_vars, task_vars>>

(* close_pool: closeall and _pg_pool = None. *)
close_pool ==
    /\ fn_call.pool.result.pg_pool
    /\ fn_call' = [NoCall EXCEPT !.fn = "close_pool"]
    /\ UNCHANGED <<bot_vars, startup_vars, geocoding_vars, task_vars>>

(* The server accepts on the first attempt, on a later one, or never. *)
AcceptAt == 1..(POOL_ATTEMPTS + 1)

PoolErrors == RetriableErrors \cup {"password authentication failed"}

InitPool == Init /\ cfg.postgres

NextPool ==
    \/ \E accept_at \in AcceptAt, error \in PoolErrors : call_initialize_pool(accept_at, error)
    \/ close_pool

SpecPool == InitPool /\ [][NextPool]_vars

(* ------- registration while the administrator changes group codes ------- *)
(* The registrant's dialogue next to the database calls of the             *)
(* administrator's menus: delete_group_code (admin_manage_group_code) and  *)
(* add_group_code (adminadd_enter_code, cmd_addgcode) on the codes of      *)
(* day 0.  The clock stands still: no code expires during the dialogue.    *)
InitRegCodes == Init /\ ~cfg.postgres /\ \A c \in Workers : ~HasProfile(c)

NextRegCodes ==
    \/ \E c \in Workers : handle_start(c)
    \/ \E c \in Workers : reg_pick_profession(c, "aspaz")
    \/ \E c \in Workers : \E t \in {"K1", "ZZ"} : reg_enter_code(c, t)
    \/ \E c \in Workers : reg_enter_name(c, "Ali Veli")
    \/ \E c \in Workers : reg_enter_fin(c, "abc1234")
    \/ \E c \in Workers : reg_enter_document_series_number(c, "aa 1234567")
    \/ \E c \in Workers : reg_enter_phone_number(c, "501234567")
    \/ \E c \in Workers : reg_enter_phone_number_save(c)
    \/ \E c \in Workers : reg_enter_phone_number_clear(c)
    \/ call_delete_group_code(PROFESSIONS[1], 0, "K1")
    \/ call_add_group_code(PROFESSIONS[1], 0, "K1", TRUE)

SpecRegCodes == InitRegCodes /\ [][NextRegCodes]_vars

(* ---------------- the program's functions, called alone ---------------- *)
(* One call in a behaviour, of any of the functions with any arguments.    *)
(* ------------------------------ CSV export ----------------------------- *)
(* Column titles, in ASCII. *)
MAP_LINK_HEADER == "Xerite Linki"

EMPTY_CSV_HEADERS ==
    <<"Tarix", "FIN Kodu", "Ad", "Soyad", "Vesiqe Seriya", "Telefon", "Qrup Kodu", "Pese",
      "Giris Saati", "Cixis Saati", "GPS Koordinatlari", "Lokasiya", "Status",
      "Qayda Pozuntulari">>

CSV_HEADERS ==
    <<"Tarix", "FIN Kodu", "Ad", "Soyad", "Vesiqe Seriya", "Telefon", "Qrup Kodu", "Pese",
      "Giris Saati", "Cixis Saati", "GPS Koordinatlari", "Lokasiya", MAP_LINK_HEADER, "Status",
      "Qayda Pozuntulari">>

(* The file generate_csv_report writes: its header row and the number of   *)
(* data rows under it.                                                     *)
generate_csv_report(dataset) ==
    IF Len(dataset) = 0
    THEN [headers |-> EMPTY_CSV_HEADERS, rows |-> 0]
    ELSE [headers |-> CSV_HEADERS, rows |-> Len(dataset)]

call_generate_csv_report(dataset) ==
    /\ fn_call = NoCall
    /\ fn_call' = [NoCall EXCEPT !.fn = "generate_csv_report",
                                 !.csv = [args |-> [report_data |-> dataset],
                                          result |-> generate_csv_report(dataset)]]
    /\ UNCHANGED <<bot_vars, startup_vars, geocoding_vars, task_vars>>

(* Datasets handed to the export: no row, one row, two rows. *)
CsvRow(c, d) == [date |-> d, fin |-> SeedProfile(c).fin, name |-> SeedProfile(c).name]

Datasets == {<<>>, <<CsvRow(1, 0)>>, <<CsvRow(1, 0), CsvRow(2, 1)>>}

InitLib ==
    /\ BotStart
    /\ ~cfg.postgres
    /\ \A c \in Workers : ~HasProfile(c)
    /\ StartupIdle
    /\ GEOCODING_ENABLED = FALSE
    /\ GeocodingIdle
    /\ fn_call = NoCall
    /\ reminders = {}

NextLib ==
    \/ \E giris_time \in ReportTimes, cixis_time \in ReportTimes :
       \E giris \in ReportPoints, cixis \in ReportPoints :
       \E is_active \in {0, 1}, min_work_hours \in {3, MIN_WORK_DURATION_HOURS} :
          call_check_rules_violation(giris_time, cixis_time, giris, cixis, is_active,
                                     min_work_hours)
    \/ \E prefix \in PhonePrefixes, code \in PhoneCodes, tail \in PhoneTails :
       \E dressed \in BOOLEAN :
          call_validate_and_normalize_phone(PhoneText(prefix, code, tail, dressed))
    \/ \E text \in Texts : call_chunk_send(text)
    \/ \E dataset \in Datasets : call_generate_csv_report(dataset)

SpecLib == InitLib /\ [][NextLib]_vars

Next ==
    \/ Tick
    \/ \E c \in Workers : handle_giris(c)
    \/ \E c \in Workers : handle_cixis(c)
    \/ \E c \in Workers : \E p \in LocationInputs(c) : handle_location(c, p)
    \/ \E c \in Workers : Resume(c)
    \/ \E c \in Workers, b \in BOOLEAN : set_user_active(c, b)

Spec == Init /\ [][Next]_vars

(* The same program on the SQLite backend only. *)
InitSqlite == Init /\ ~cfg.postgres

SpecSqlite == InitSqlite /\ [][Next]_vars

(* ------------------- handle_location: a step raises --------------------- *)
(* handle_location wraps its body in try/except Exception.  The except      *)
(* block prints, awaits an error reply to the chat and only then removes    *)
(* the chat's pending action.  A database call and a reply (a request to    *)
(* the Telegram API) are the steps that can raise; the error reply is a     *)
(* request of the same kind, so it succeeds or raises as well.              *)
ERROR_OUTCOME == "error"

LocationHandlers == {"location_checkin", "location_checkout"}

LocationHandlerOf(c) ==
    IF pending_action[c].action = "checkin" THEN "location_checkin" ELSE "location_checkout"

(* A database call raises before anything was written: db.init_db,         *)
(* get_or_create_user2 or a lookup.  The except block starts and awaits    *)
(* its error reply.                                                        *)
handle_location_db_raises(c) ==
    /\ fsm_state[c] = "none"
    /\ pending_action[c] # NoPending
    /\ ~IntentExpired(pending_action[c].ts, now)
    /\ CanSuspend(c, Cont(LocationHandlerOf(c), ERROR_OUTCOME, FALSE))
    /\ Suspend(c, Cont(LocationHandlerOf(c), ERROR_OUTCOME, FALSE))
    /\ ev' = Event(c, LocationHandlerOf(c), ERROR_OUTCOME, "run", FALSE)
    /\ UNCHANGED <<now, cfg, users, users2, sessions, pending_action, last_press, attendance>>
    /\ UNCHANGED <<registration_vars, admin_vars>>
    /\ UNCHANGED <<startup_vars, geocoding_vars, library_vars, task_vars>>

(* One of the replies of a suspended update raises: what the handler wrote *)
(* before the reply (the created or closed session) stays, the rest of the *)
(* handler (legacy mirror, reminder task, pop) is skipped and the except   *)
(* block starts.                                                           *)
handle_location_reply_raises(c) ==
    /\ \E k \in inflight[c] :
         /\ k.handler \in LocationHandlers
         /\ k.outcome # ERROR_OUTCOME
         /\ inflight' = [inflight EXCEPT ![c] = (@ \ {k}) \cup {Cont(k.handler, ERROR_OUTCOME, FALSE)}]
         /\ ev' = Event(c, k.handler, ERROR_OUTCOME, "run", FALSE)
    /\ UNCHANGED <<now, cfg, users, users2, sessions, pending_action, last_press, attendance>>
    /\ UNCHANGED <<registration_vars, admin_vars>>
    /\ UNCHANGED <<startup_vars, geocoding_vars, library_vars, task_vars>>

(* The error reply of the except block raises: the exception leaves        *)
(* handle_location before pending_action.pop is reached.                   *)
handle_location_except_raises(c) ==
    /\ \E k \in inflight[c] :
         /\ k.handler \in LocationHandlers
         /\ k.outcome = ERROR_OUTCOME
         /\ inflight' = [inflight EXCEPT ![c] = @ \ {k}]
         /\ ev' = Event(c, k.handler, "unhandled", "resumed", FALSE)
    /\ UNCHANGED <<now, cfg, users, users2, sessions, pending_action, last_press, attendance>>
    /\ UNCHANGED <<registration_vars, admin_vars>>
    /\ UNCHANGED <<startup_vars, geocoding_vars, library_vars, task_vars>>

NextFault ==
    \/ Next
    \/ \E c \in Workers : handle_location_db_raises(c)
    \/ \E c \in Workers : handle_location_reply_raises(c)
    \/ \E c \in Workers : handle_location_except_raises(c)

SpecFault == InitSqlite /\ [][NextFault]_vars

(* ----------------- closed sessions and later updates -------------------- *)
(* The attendance engine with room for a second location update of a chat  *)
(* while the replies of its first are still being sent, and with the       *)
(* cascading delete of the rows of a chat that has a closed session.       *)
HasClosedSession(c) == \E s \in sessions : s.user_id = users2[c] /\ s.end_time # NULL

InitClosed == InitSqlite /\ \A c \in Workers : HasProfile(c)

NextClosed ==
    \/ Tick
    \/ \E c \in Workers : handle_giris(c)
    \/ \E c \in Workers : handle_cixis(c)
    \/ \E c \in Workers : \E p \in LocationInputs(c) : handle_location_in(c, p, MaxInFlight + 1)
    \/ \E c \in Workers : Resume(c)
    \/ \E c \in Workers : HasClosedSession(c) /\ delete_user_all_call(c)

SpecClosed == InitClosed /\ [][NextClosed]_vars

(* ------------------------------ properties ----------------------------- *)
SessionsOf(c) == {s \in sessions : s.user_id = users2[c] /\ users2[c] # 0}

OpenSessionsOf(c) == {s \in SessionsOf(c) : s.end_time = NULL}

Dates == 0..(MaxDay + 1)

Created == {q \in sessions' : q.id \notin {s.id : s \in sessions}}

Closed == {q \in sessions' : q.end_time # NULL /\ \E s \in sessions : s.id = q.id /\ s.end_time = NULL}

Finished(e) == e.phase \in {"end", "resumed"}

(* A step in which handle_location starts processing an update of chat c. *)
LocationStep(c) ==
    /\ ev'.chat = c
    /\ ev'.handler \in {"handle_location", "location_checkin", "location_checkout"}
    /\ ev'.phase \in {"run", "end"}

(* C1: for every user and every Baku calendar date at most one session     *)
(* with that start date exists, and a check-in press by a user who already *)
(* has a session dated today records no pending check-in.                  *)
C1_OneSessionPerDate ==
    \A c \in Chats : \A d \in Dates :
        Cardinality({s \in SessionsOf(c) : BakuDate(s.start_time) = d}) <= 1

(* C2: in every reachable state each user has at most one open session.    *)
C2_AtMostOneOpenSession ==
    \A c \in Chats : Cardinality(OpenSessionsOf(c)) <= 1

(* C3: a session is closed only when at least MIN_WORK_DURATION_HOURS have *)
(* elapsed since its start: every closed session lasted at least 6 h and   *)
(* has duration_min >= 360.                                                *)
C3_MinDuration ==
    \A s \in sessions : s.end_time # NULL =>
        /\ s.end_time - s.start_time >= 6 * 3600
        /\ s.duration_min >= 360

C3_Witness ==
    \E s \in SessionsOf(1) : s.end_time # NULL /\ s.end_time - s.start_time = 6 * 3600
                             /\ s.duration_min = 360

(* C4: a check-out from a point farther from the workplace centre than the *)
(* configured radius, clamped to at most 300 m, never closes the session:  *)
(* every closed session's end point lies within that radius.               *)
C4_Geofence ==
    \A s \in sessions : s.end_time # NULL =>
        LET d == Abs(s.end_lat - WORKPLACE_LAT) + Abs(s.end_lon - WORKPLACE_LON)
        IN  d <= 300 /\ d <= cfg.radius_env

C4_Witness ==
    /\ cfg.radius_env > 300
    /\ ev = Event(1, "location_checkout", "outside", "resumed", is_admin_configured)
    /\ OpenSessionsOf(1) # {}

(* C5: no session is created or closed for a user whose legacy profile has *)
(* the active flag false when the location update is processed.            *)
C5_NoSessionChangeWhileInactive ==
    [][\A c \in Workers :
          (users[c].id # 0 /\ ~users[c].is_active /\ LocationStep(c)) => sessions' = sessions]_vars

C7_Timeout ==
    [][\A c \in Workers :
          (LocationStep(c) /\ pending_action[c] # NoPending) =>
             IF now - pending_action[c].ts > 120
             THEN /\ sessions' = sessions
                  /\ pending_action'[c] = NoPending
                  /\ ev'.outcome = "expired"
             ELSE /\ ev'.outcome # "expired"
                  /\ ev'.handler = IF pending_action[c].action = "checkin"
                                   THEN "location_checkin" ELSE "location_checkout"
                  /\ pending_action[c].action = "checkin" => Closed = {}
                  /\ pending_action[c].action = "checkout" => Created = {}]_vars

C7_Witness ==
    /\ ev = Event(1, "location_checkin", "expired", "end", FALSE)
    /\ pending_action[1] = NoPending
    /\ last_press[1] = "checkin"
    /\ SessionsOf(1) = {}

(* C8: a location update is processed for the action of the chat's most    *)
(* recent button press only, whether that press was accepted or rejected.  *)
C8_LastPressWins ==
    [][\A c \in Workers :
          (LocationStep(c) /\ ev'.outcome \notin {"ignored", "expired"}) =>
             ev'.handler = IF last_press[c] = "checkin"
                           THEN "location_checkin" ELSE "location_checkout"]_vars

(* C9: every rejection for a rule-compliance reason (deadline passed,      *)
(* under minimum duration, outside geofence, (0,0) GPS fix), at the button *)
(* press or at the location update, leaves no pending action for the chat  *)
(* and, when an administrator is configured, alerts the administrator.     *)
C9_RejectionClearsAndAlerts ==
    [][\A c \in Workers :
          (ev'.chat = c /\ Finished(ev') /\ RuleRejection(ev'.outcome)) =>
             /\ pending_action'[c] = NoPending
             /\ is_admin_configured => ev'.alert]_vars

SameRegistrationKey(r1, r2) ==
    /\ r1.user_id = r2.user_id /\ r1.date = r2.date
    /\ r1.profession = r2.profession /\ r1.code = r2.code

(* A step in which a final-step submission of chat c, having read the      *)
(* collected data, saves the profile and consults the registration log.    *)
SaveStep(c) ==
    /\ ev'.chat = c /\ ev'.handler = "reg_enter_phone_number"
    /\ ev'.phase = "run" /\ ev'.outcome # "phone_ok"

(* C10: the registration log never holds two rows with the same user,      *)
(* date, profession and code, also when two submissions of the final step  *)
(* overlap; a submission that finds the row already present is answered    *)
(* "already registered today" and writes no row.                           *)
C10_OneRegistrationRow ==
    [][/\ \A r1, r2 \in registrations' : SameRegistrationKey(r1, r2) => r1 = r2
       /\ \A c \in Workers :
            (/\ SaveStep(c)
             /\ ~Incomplete(fsm_data[c])
             /\ \E r \in registrations :
                    /\ r.user_id = users'[c].id /\ r.date = BakuDate(now)
                    /\ r.profession = fsm_data[c].profession /\ r.code = fsm_data[c].code)
            => /\ ev'.outcome = "already_registered"
               /\ registrations' = registrations]_vars

C10_Witness ==
    /\ ev = Event(1, "reg_enter_phone_number", "already_registered", "resumed", FALSE)
    /\ Cardinality({r \in registrations : r.user_id = users[1].id /\ r.date = BakuDate(now)}) = 1

(* The dialogue steps in the order of the Reg states group and the handler *)
(* each state routes to.                                                   *)
RegOrder == <<"profession", "code", "name", "fin", "document_series_number", "phone_number">>

RegHandlers ==
    <<"reg_pick_profession", "reg_enter_code", "reg_enter_name", "reg_enter_fin",
      "reg_enter_document_series_number", "reg_enter_phone_number">>

StepIndex(st) == CHOOSE i \in 1..Len(RegOrder) : RegOrder[i] = st

(* A step in which a dialogue handler of chat c receives a message. *)
DialogueStep(c) ==
    /\ ev'.chat = c
    /\ \E i \in 1..Len(RegHandlers) : ev'.handler = RegHandlers[i]
    /\ ev'.handler = "reg_enter_phone_number" => ev'.outcome \in {"invalid", "phone_ok"}

(* C11: in each of the six registration steps the cancel input ends the    *)
(* flow: the dialogue state and data are cleared, the input is not taken   *)
(* as the step's value and no profile or registration-log row is written.  *)
C11_CancelEndsFlow ==
    [][\A c \in Workers :
          (DialogueStep(c) /\ last_text' = CANCEL_TEXT) =>
             /\ fsm_state'[c] = "none"
             /\ fsm_data'[c] = NoData
             /\ users' = users
             /\ registrations' = registrations]_vars

(* C12: the dialogue advances strictly in the order profession, code,      *)
(* name, FIN, document series, phone; an invalid input leaves the state    *)
(* and the collected fields unchanged; the legacy profile is written only  *)
(* when the phone step accepted its input with all five earlier fields     *)
(* collected.                                                              *)
C12_StepOrder ==
    [][\A c \in Workers :
          /\ DialogueStep(c) =>
                /\ fsm_state[c] # "none"
                /\ ev'.handler = RegHandlers[StepIndex(fsm_state[c])]
                /\ ev'.outcome = "invalid" =>
                      (fsm_state'[c] = fsm_state[c] /\ fsm_data'[c] = fsm_data[c])
                /\ ev'.outcome = "accepted" =>
                      fsm_state'[c] = RegOrder[StepIndex(fsm_state[c]) + 1]
                /\ ev'.outcome = "phone_ok" =>
                      (fsm_state'[c] = fsm_state[c] /\ fsm_data'[c] = fsm_data[c])
          /\ fsm_state'[c] # fsm_state[c] =>
                \/ fsm_state'[c] = "none"
                \/ ev'.handler = "handle_start" /\ fsm_state'[c] = "profession"
                \/ /\ fsm_state[c] \notin {"none", "phone_number"}
                   /\ fsm_state'[c] = RegOrder[StepIndex(fsm_state[c]) + 1]
          /\ (users'[c] # users[c] /\ users'[c].id # 0) =>
                /\ SaveStep(c)
                /\ fsm_data[c].profession # "" /\ fsm_data[c].code # ""
                /\ fsm_data[c].name # "" /\ fsm_data[c].fin # ""
                /\ fsm_data[c].document_series_number # ""
                /\ users'[c].name = fsm_data[c].name /\ users'[c].fin = fsm_data[c].fin
                /\ users'[c].code = fsm_data[c].code
                /\ users'[c].seriya = fsm_data[c].document_series_number]_vars

C12_Witness ==
    /\ ev = Event(1, "reg_enter_phone_number", "registered", "run", FALSE)
    /\ fsm_state[1] = "phone_number"
    /\ users[1].id # 0 /\ users[1].name = "Ali Veli" /\ users[1].fin = "ABC1234"
    /\ users[1].seriya = "AA1234567" /\ users[1].phone_number = "+994501234567"

(* ------------------------------ deletion ------------------------------- *)
(* The rows of chat identity t: its legacy profile and what hangs on the   *)
(* legacy id, its GPS profile and what hangs on the GPS id.                *)
AttendanceOf(t) == {a \in attendance : users[t].id # 0 /\ a.user_id = users[t].id}

RegistrationsOf(t) == {r \in registrations : users[t].id # 0 /\ r.user_id = users[t].id}

GpsSessionsOf(t) == {s \in sessions : users2[t] # 0 /\ s.user_id = users2[t]}

HasRows(t) == users[t].id # 0 \/ users2[t] # 0

(* A step in which delete_user_all is applied to t. *)
DeleteAllStep(t) ==
    /\ ev'.chat = t
    /\ \/ ev'.handler = "delete_user_all"
       \/ ev'.handler = "handle_start" /\ ev'.outcome = "auto_reset"

(* C13: delete_user_all(t) leaves no legacy profile, attendance row,       *)
(* registration-log row, GPS profile or session of t, leaves the rows of   *)
(* every other identity as they were, and applied to an identity with no   *)
(* rows changes no table and returns false.                                *)
C13_DeleteUserAll ==
    [][\A t \in Chats : DeleteAllStep(t) =>
          /\ users'[t] = NoProfile
          /\ users2'[t] = 0
          /\ attendance' = attendance \ AttendanceOf(t)
          /\ registrations' = registrations \ RegistrationsOf(t)
          /\ sessions' = sessions \ GpsSessionsOf(t)
          /\ \A c \in Chats \ {t} : users'[c] = users[c] /\ users2'[c] = users2[c]
          /\ (ev'.handler = "delete_user_all" /\ ~HasRows(t)) =>
                /\ ev'.outcome = "false"
                /\ <<users, attendance, registrations, users2, sessions>>'
                     = <<users, attendance, registrations, users2, sessions>>
      ]_vars

(* delete_user_all has returned true for the worker, whose rows in all     *)
(* five tables are gone while the colleague's are all there.               *)
C13_Witness ==
    /\ ev.handler = "delete_user_all" /\ ev.outcome = "true" /\ ev.chat \in Workers
    /\ users[ev.chat] = NoProfile /\ users2[ev.chat] = 0
    /\ users[Colleague] = SeedProfile(Colleague)
    /\ attendance = {ColleagueAttendance}
    /\ registrations = {SeedRegistration(Colleague)}
    /\ sessions = {ColleagueSession}

(* The step in which the administrator's yes is answered "deleted". *)
AdminDeleted == ev'.handler = "admin_manage_student_confirm" /\ ev'.outcome = "deleted"

(* C14: after the administrator confirms the deletion of a registrant, no  *)
(* legacy profile, attendance row, registration-log row, GPS profile or    *)
(* session of that registrant remains.                                     *)
C14_AdminDeleteRemovesAll ==
    [][AdminDeleted =>
          LET t == admin_data.user_id
          IN  /\ users'[t] = NoProfile
              /\ attendance' \cap AttendanceOf(t) = {}
              /\ registrations' \cap RegistrationsOf(t) = {}
              /\ users2'[t] = 0
              /\ sessions' \cap GpsSessionsOf(t) = {}
      ]_vars

(* A step of the students submenu. *)
AdminStep ==
    ev'.handler \in {"btn_manage_students", "admin_manage_student_action",
                     "admin_manage_student_code_or_id", "admin_manage_student_confirm"}

(* Some row of some table is gone after the step. *)
RowsDeleted ==
    \/ \E c \in Chats : users[c].id # 0 /\ users'[c].id = 0
    \/ \E c \in Chats : users2[c] # 0 /\ users2'[c] = 0
    \/ ~ ({a.id : a \in attendance} \subseteq {a.id : a \in attendance'})
    \/ ~ ({r.id : r \in registrations} \subseteq {r.id : r \in registrations'})
    \/ ~ ({s.id : s \in sessions} \subseteq {s.id : s \in sessions'})

ConfirmStep == ev'.handler = "admin_manage_student_confirm"

(* C15: in the students submenu a row is deleted only by the yes answer at *)
(* the confirm step; a no answer clears the flow and deletes nothing; any  *)
(* other text keeps the confirm step and deletes nothing.                  *)
C15_ConfirmBeforeDelete ==
    [][/\ (AdminStep /\ RowsDeleted) =>
            /\ admin_state = "confirm" /\ ConfirmStep /\ last_text' = YES_TEXT
       /\ (ConfirmStep /\ last_text' \in {"X Xeyr", "NO"}) =>
            /\ admin_state' = "none" /\ admin_data' = NoAdminData /\ ~RowsDeleted
       /\ (ConfirmStep /\ last_text' \notin {YES_TEXT, "X Xeyr", "NO"}) =>
            /\ admin_state' = "confirm" /\ admin_data' = admin_data /\ ~RowsDeleted
      ]_vars

(* The administrator has answered no at the confirm step for the worker,   *)
(* whose legacy profile is still there.                                    *)
C15_Witness ==
    /\ ev.handler = "admin_manage_student_confirm" /\ ev.outcome = "declined"
    /\ last_text = "NO"
    /\ admin_state = "none"
    /\ \E c \in Workers : HasProfile(c)


(* The step in which /start from chat c is answered. *)
StartStep(c) == ev'.handler = "handle_start" /\ ev'.chat = c

(* The registration log of c ends more than 120 days before today. *)
LastRegistrationStale(c) ==
    /\ RegistrationsOf(c) # {}
    /\ \A r \in RegistrationsOf(c) : BakuDate(now) - r.date > AUTO_RESET_DAYS

(* C16: at /start from a chat with a legacy profile, a last registration   *)
(* more than 120 days before today has every row of the chat deleted and   *)
(* the chat put into the first registration step; a last registration at   *)
(* most 120 days back, or none, has nothing deleted and the chat in no     *)
(* guided flow.                                                            *)
C16_AutoReset ==
    [][\A c \in Workers : (StartStep(c) /\ HasProfile(c)) =>
          IF LastRegistrationStale(c)
          THEN /\ users'[c] = NoProfile
               /\ users2'[c] = 0
               /\ attendance' \cap AttendanceOf(c) = {}
               /\ registrations' \cap RegistrationsOf(c) = {}
               /\ sessions' \cap GpsSessionsOf(c) = {}
               /\ fsm_state'[c] = "profession"
          ELSE /\ ~RowsDeleted
               /\ fsm_state'[c] = "none"
      ]_vars

(* --------------------------- start-up guard ---------------------------- *)
(* A step of process q inside acquire_single_instance_lock. *)
AcquireStep(q) ==
    /\ lock_proc[q].pc \in AcquireSteps
    /\ lock_proc'[q].pc # lock_proc[q].pc
    /\ lock_proc'[q].pc # "killed"

(* C17: while a process that acquired the marker is alive, a start attempt *)
(* begun after that does not acquire it and leaves the marker file and the *)
(* pid in it as they are; a start attempt that finds the marker of a dead  *)
(* process removes it and acquires the marker with its own pid.            *)
C17_OwnerKeepsMarker ==
    [][\A q \in Procs : AcquireStep(q) =>
          /\ (\E p \in lock_proc[q].after : lock_proc[p].pc = "running") =>
                /\ lock_file' = lock_file
                /\ lock_proc'[q].pc # "running"
          /\ (lock_proc[q].found = "stale" /\ lock_proc'[q].pc \in {"running", "refused"}) =>
                /\ lock_proc'[q].pc = "running"
                /\ lock_file' = [exists |-> TRUE, inode |-> q, content |-> q]
      ]_vars

(* C18: under every interleaving of the file-system steps of the start     *)
(* attempts, at most one live process at a time runs with acquire having   *)
(* returned True and the marker not released.                              *)
C18_AtMostOneOwner ==
    Cardinality({p \in Procs : lock_proc[p].pc = "running"}) <= 1

(* ------------------------------ geocoding ------------------------------ *)
GeoDone(t) == geo_task[t].pc = "done"

RequestsOf(tasks) == {r \in geo_requests : r.task \in tasks}

(* Two finished lookups of the same rounded coordinate, begun no more than *)
(* the time to live apart, t first.                                        *)
SameCoordinateWithinTTL(t, u) ==
    /\ t # u /\ GeoDone(t) /\ GeoDone(u)
    /\ GeoKey(geo_task[t].coord) = GeoKey(geo_task[u].coord)
    /\ geo_task[t].started <= geo_task[u].started
    /\ geo_task[u].started - geo_task[t].started <= TTL

(* C19: with geocoding enabled, two lookups of the same coordinate rounded *)
(* to 5 decimals within the cache's time to live cause one outbound        *)
(* request in all, and the second returns the value the first cached.      *)
C19_OneRequestPerCoordinate ==
    GEOCODING_ENABLED =>
        \A t, u \in GeoTasks : SameCoordinateWithinTTL(t, u) =>
            /\ Cardinality(RequestsOf({t, u})) = 1
            /\ \E first \in {t, u} :
                 /\ RequestsOf({first}) # {}
                 /\ \A second \in {t, u} \ {first} :
                      /\ geo_task[second].cached
                      /\ geo_task[second].result = geo_task[first].result

(* The tasks acquire() has let go. *)
Released == {t \in GeoTasks : geo_task[t].released_at # 0}

(* C20: however many tasks call the rate limiter at once, the times at     *)
(* which acquire() lets two of them go are at least 1/rate seconds apart,  *)
(* and one task at a time is inside it.                                    *)
C20_ReleasesSpaced ==
    /\ \A t, u \in Released :
          t # u => Abs(geo_task[t].released_at - geo_task[u].released_at) >= HalfSeconds(1) \div GEOCODING_RPS
    /\ Cardinality({t \in GeoTasks : geo_task[t].pc = "sleeping"}) <= 1

(* Two tasks called at the same time; the second slept and was let go one  *)
(* interval after the first.                                               *)
C20_Witness ==
    \E t, u \in Released :
        /\ geo_task[t].started = geo_task[u].started
        /\ ~geo_task[t].slept /\ geo_task[u].slept
        /\ geo_task[u].released_at - geo_task[t].released_at = HalfSeconds(1) \div GEOCODING_RPS

(* ----------------------------- rule engine ----------------------------- *)
RulesCalled == fn_call.fn = "check_rules_violation"

(* C21: check_rules_violation returns the status inactive with exactly the *)
(* one fixed violation text whenever the active flag is 0, whatever the    *)
(* times, coordinates and thresholds.                                      *)
C21_InactiveShortCircuit ==
    (RulesCalled /\ fn_call.rules.args.is_active = 0) =>
        fn_call.rules.result = [status |-> "inactive", violations |-> <<INACTIVE_TEXT>>]

(* An inactive registrant with no check-in at all, which for an active one *)
(* is a violation of its own.                                              *)
C21_Witness ==
    /\ RulesCalled /\ fn_call.rules.args.is_active = 0 /\ fn_call.rules.args.giris_time = ""
    /\ fn_call.rules.result.status = "inactive"

(* A time in HH:MM:SS form, and what it says. *)
IsHMS(s) ==
    /\ Len(s) = 8 /\ CharAt(s, 3) = ":" /\ CharAt(s, 6) = ":"
    /\ \A i \in {1, 2, 4, 5, 7, 8} : IndexIn(CharAt(s, i), Digits) # 0
    /\ ToInt(SubSeq(s, 1, 2)) < 24 /\ ToInt(SubSeq(s, 4, 5)) < 60 /\ ToInt(SubSeq(s, 7, 8)) < 60

HourOf(s) == ToInt(SubSeq(s, 1, 2))

SecondsOf(s) == 3600 * HourOf(s) + 60 * ToInt(SubSeq(s, 4, 5)) + ToInt(SubSeq(s, 7, 8))

(* The rule an entry of the list speaks of. *)
RuleOf(entry) ==
    IF StartsWith(entry, LATE_CHECKIN_TEXT) THEN "checkin_deadline"
    ELSE IF StartsWith(entry, LATE_CHECKOUT_TEXT) THEN "checkout_deadline"
    ELSE IF entry = SHORT_STAY_TEXT THEN "min_duration"
    ELSE IF entry = MOVED_TEXT THEN "location"
    ELSE "none"

(* The rules that hold of the arguments of the call. *)
RulesBroken ==
    LET a == fn_call.rules.args
    IN  {r \in {"checkin_deadline", "checkout_deadline", "min_duration", "location"} :
           \/ r = "checkin_deadline" /\ HourOf(a.giris_time) >= CHECKIN_DEADLINE_HOUR
           \/ r = "checkout_deadline" /\ HourOf(a.cixis_time) >= CHECKOUT_DEADLINE_HOUR
           \/ r = "min_duration"
                /\ SecondsOf(a.cixis_time) - SecondsOf(a.giris_time) < 3600 * a.min_work_hours
           \/ r = "location"
                /\ a.giris.lat # NULL /\ a.giris.lon # NULL
                /\ a.cixis.lat # NULL /\ a.cixis.lon # NULL
                /\ Abs(a.giris.lat - a.cixis.lat) + Abs(a.giris.lon - a.cixis.lon)
                     > LOCATION_TOLERANCE_M}

(* C22: for an active registrant with a check-in and a check-out time in   *)
(* HH:MM:SS form the status is violation exactly when a rule holds (late   *)
(* check-in hour, late check-out hour, too short a stay, check-out away    *)
(* from the check-in), with one entry in the list for each rule that       *)
(* holds; otherwise the status is ok and the list empty.                   *)
C22_ViolationIffRuleHolds ==
    (/\ RulesCalled /\ fn_call.rules.args.is_active = 1
     /\ IsHMS(fn_call.rules.args.giris_time) /\ IsHMS(fn_call.rules.args.cixis_time)) =>
        LET v == fn_call.rules.result.violations
        IN  /\ fn_call.rules.result.status = (IF RulesBroken = {} THEN "ok" ELSE "violation")
            /\ Len(v) = Cardinality(RulesBroken)
            /\ {RuleOf(v[i]) : i \in 1..Len(v)} = RulesBroken

(* A check-in at 11:00:00 and a check-out at 19:00:00 from another place:  *)
(* three rules hold, three entries.                                        *)
C22_Witness ==
    /\ RulesCalled /\ fn_call.rules.args.is_active = 1
    /\ fn_call.rules.args.giris_time = "11:00:00" /\ fn_call.rules.args.cixis_time = "19:00:00"
    /\ fn_call.rules.result.status = "violation"
    /\ Len(fn_call.rules.result.violations) = 3

PhoneCalled == fn_call.fn = "validate_and_normalize_phone"

(* The four forms of the claim, read off the text with spaces, dashes and *)
(* parentheses removed: the nine subscriber digits, "" when no form fits. *)
ClaimedForms == {"", "+994", "994", "0"}

ClaimedCodes == {"50", "51", "55", "60", "70", "77", "10", "12", "90", "99"}

ClaimedSubscriber(text) ==
    LET clean == RemoveChars(text, " -()")
        fits(p) == /\ StartsWith(clean, p)
                   /\ Len(clean) = Len(p) + 9
                   /\ IsDigit(SubSeq(clean, Len(p) + 1, Len(clean)))
                   /\ StartsWithAny(SubSeq(clean, Len(p) + 1, Len(clean)), ClaimedCodes)
    IN  IF \E p \in ClaimedForms : fits(p)
        THEN LET p == CHOOSE q \in ClaimedForms : fits(q)
             IN  SubSeq(clean, Len(p) + 1, Len(clean))
        ELSE ""

(* C23: validate_and_normalize_phone accepts exactly the texts that, with   *)
(* spaces, dashes and parentheses removed, are nine digits, +994 and nine   *)
(* digits, 994 and nine digits, or 0 and nine digits, the nine digits       *)
(* starting with one of 50, 51, 55, 60, 70, 77, 10, 12, 90, 99; an accepted *)
(* text is normalised to +994 and the nine digits; all else is rejected.    *)
C23_PhoneForms ==
    PhoneCalled =>
        fn_call.phone.result =
            (IF ClaimedSubscriber(fn_call.phone.args.phone) = "" THEN ""
             ELSE "+994" \o ClaimedSubscriber(fn_call.phone.args.phone))

ChunksCalled == fn_call.fn = "chunk_send"

(* a message boundary that falls strictly inside a line of the text *)
InsideLine(text, p) ==
    \E i \in 1..Len(text.lines) :
        LineStart(text.lines, i) < p /\ p < LineStart(text.lines, i) + text.lines[i]

ChunksKeepLines ==
    LET text == fn_call.chunks.args.text
    IN  \A k \in 1..Len(fn_call.chunks.result) :
            LET m == fn_call.chunks.result[k]
            IN  /\ m.to \in text.newlines \cup {text.len}
                /\ ~InsideLine(text, m.from)
                /\ ~InsideLine(text, m.to)
                /\ m.to - m.from <= TG_CHUNK_LIMIT

(* C24 (as stated): for every text, every message of chunk_send ends at a *)
(* newline of the text or at its end, no line is split across two         *)
(* messages, and no message is longer than 3,500 characters.              *)
C24_NoLineSplit == ChunksCalled => ChunksKeepLines

(* C24 (amended): the same, for every text none of whose lines is longer  *)
(* than 3,500 characters.                                                 *)
C24_NoLineSplitOfShortLines ==
    (ChunksCalled /\ \A i \in 1..Len(fn_call.chunks.args.text.lines) :
                         fn_call.chunks.args.text.lines[i] <= TG_CHUNK_LIMIT)
        => ChunksKeepLines

C24_Witness ==
    /\ ChunksCalled
    /\ \A i \in 1..Len(fn_call.chunks.args.text.lines) : fn_call.chunks.args.text.lines[i] <= TG_CHUNK_LIMIT
    /\ fn_call.chunks.args.text.len > TG_CHUNK_LIMIT
    /\ Len(fn_call.chunks.result) >= 2
    /\ \E k \in 1..Len(fn_call.chunks.result) : fn_call.chunks.result[k].to \in fn_call.chunks.args.text.newlines

(* --------------------------- multi-day report -------------------------- *)
ReportCalled == fn_call.fn = "admin_period_format"

(* The attendance row and the sessions the tables hold for a registrant    *)
(* and a date.                                                             *)
AttendanceOn(c, d) == {a \in attendance : a.user_id = users[c].id /\ a.date = d}

SessionsOn(c, d) ==
    {s \in sessions : s.user_id = users2[c] /\ StoredDate(s.start_time) = d}

HasSignal(c, d) ==
    \/ \E a \in AttendanceOn(c, d) : a.giris_time # NULL \/ a.cixis_time # NULL
    \/ \E s \in SessionsOn(c, d) : s.start_lat # NULL \/ s.end_lat # NULL

(* The times and coordinates of a row are those the tables hold for the    *)
(* row's registrant on the row's date.                                     *)
RowOfItsDate(r) ==
    /\ \/ r.giris_time = NULL /\ r.cixis_time = NULL /\ AttendanceOn(r.telegram_id, r.date) = {}
       \/ \E a \in AttendanceOn(r.telegram_id, r.date) :
             r.giris_time = a.giris_time /\ r.cixis_time = a.cixis_time
    /\ \/ r.start_lat = NULL /\ r.end_lat = NULL /\ SessionsOn(r.telegram_id, r.date) = {}
       \/ \E s \in SessionsOn(r.telegram_id, r.date) :
             /\ r.start_lat = s.start_lat /\ r.start_lon = s.start_lon
             /\ r.end_lat = s.end_lat /\ r.end_lon = s.end_lon

(* C25: the report over [start, end] holds a row for a registrant of the   *)
(* roster (of the chosen code, when one is chosen) and a date exactly when *)
(* the date lies in the range and the tables hold an attendance signal of  *)
(* the registrant for it (a check-in or check-out time, a GPS coordinate); *)
(* every row carries its own date and that date's data, and no row is      *)
(* without a signal.                                                       *)
C25_ReportRows ==
    ReportCalled =>
        LET a == fn_call.report.args
            rows == fn_call.report.result
        IN  /\ \A r \in rows :
                 /\ r.date \in a.start_date..a.end_date
                 /\ a.code = "" \/ r.code = a.code
                 /\ r.code = users[r.telegram_id].code
                 /\ HasSignal(r.telegram_id, r.date)
                 /\ RowOfItsDate(r)
                 /\ r.giris_time # NULL \/ r.cixis_time # NULL
                      \/ r.start_lat # NULL \/ r.end_lat # NULL
            /\ \A d \in a.start_date..a.end_date : \A c \in Chats :
                 (/\ HasProfile(c)
                  /\ a.code = "" \/ users[c].code = a.code
                  /\ HasSignal(c, d))
                   => /\ \E r \in rows : r.telegram_id = c /\ r.date = d
                      /\ \A at \in AttendanceOn(c, d) :
                           \E r \in rows : /\ r.telegram_id = c /\ r.date = d
                                           /\ r.giris_time = at.giris_time
                      /\ \A s \in SessionsOn(c, d) :
                           \E r \in rows : /\ r.telegram_id = c /\ r.date = d
                                           /\ r.start_lat = s.start_lat

(* A report over several days on PostgreSQL with rows of two dates, one of *)
(* them holding GPS coordinates only, while a registrant of the roster has *)
(* no signal on a day of the range and no row for it.                      *)
C25_Witness ==
    /\ ReportCalled
    /\ cfg.postgres
    /\ fn_call.report.args.start_date < fn_call.report.args.end_date
    /\ \E r1 \in fn_call.report.result, r2 \in fn_call.report.result :
          /\ r1.date # r2.date
          /\ r1.giris_time = NULL /\ r1.start_lat # NULL
    /\ \E c \in Chats, d \in fn_call.report.args.start_date..fn_call.report.args.end_date :
          /\ ~HasSignal(c, d)
          /\ fn_call.report.args.code \in {"", users[c].code}

(* A chat other than the configured administrator. *)
NotAdministrator(c) == cfg.ADMIN_ID = 0 \/ c # cfg.ADMIN_ID

MenuStates == AdminAddGStates \cup AdminManageGroupStates \cup EditProfileStates

(* C26: no message of a chat other than the configured administrator adds, *)
(* deletes or toggles a group code, changes the active flag of a           *)
(* registrant, deletes a registrant through the administrator's menus or   *)
(* edits another registrant's profile: a step whose sender is not the      *)
(* administrator leaves the group codes as they are, leaves every other    *)
(* chat's profile as it is, keeps the active flag of the sender's own      *)
(* profile, removes that profile only by the automatic reset of /start,    *)
(* and no such chat is ever inside a dialogue of the administrator's      *)
(* menus; with the administrator identity 0 no chat is the administrator.  *)
C26_OnlyAdministratorManages ==
    [][ /\ NotAdministrator(ev'.chat) =>
             /\ group_codes' = group_codes
             /\ \A q \in Chats \ {ev'.chat} : users'[q] = users[q]
             /\ \A q \in Chats :
                  HasProfile(q) /\ users'[q].id # 0 => users'[q].is_active = users[q].is_active
             /\ \A q \in Chats :
                  HasProfile(q) /\ users'[q].id = 0 => ev'.handler = "handle_start"
             /\ admin_vars' = admin_vars
        /\ \A c \in Chats : NotAdministrator(c) => fsm_state'[c] \notin MenuStates
        /\ cfg.ADMIN_ID = 0 => \A c \in Chats \cup {0, AdminChat} : ~is_admin(c) ]_vars

(* The administrator has changed the group codes and a chat that is not    *)
(* the administrator has just been refused at the add-code button.         *)
C26_Witness ==
    /\ ev.handler = "btn_add_today_code" /\ ev.outcome = "not_admin"
    /\ ev.chat \in Chats /\ NotAdministrator(ev.chat)
    /\ group_codes # SeedGroupCodes

ProfileRows(table) == {c \in Chats : table[c].id # 0}

(* C27: upsert_user_profile on an identity that has a profile row replaces *)
(* the name, FIN, document series, code and phone of that row and leaves   *)
(* its active flag and its row id as they were; on a new identity it makes *)
(* one row, active; either way that identity has exactly one row after the *)
(* call and no other row changes.                                          *)
C27_UpsertKeepsFlagAndId ==
    [][ fn_call'.fn = "upsert_user_profile" =>
          LET a == fn_call'.profile.args
              tid == a.telegram_id
          IN  /\ users'[tid].id # 0
              /\ users'[tid].name = a.name /\ users'[tid].fin = a.fin
              /\ users'[tid].seriya = a.seriya /\ users'[tid].code = a.code
              /\ users'[tid].phone_number = a.phone_number
              /\ users[tid].id # 0 =>
                   /\ users'[tid].is_active = users[tid].is_active
                   /\ users'[tid].id = users[tid].id
              /\ users[tid].id = 0 =>
                   /\ users'[tid].is_active
                   /\ \A q \in ProfileRows(users) : users[q].id # users'[tid].id
              /\ ProfileRows(users') = ProfileRows(users) \cup {tid}
              /\ \A q \in Chats \ {tid} : users'[q] = users[q] ]_vars

(* The profile of a deactivated registrant has been rewritten. *)
C27_Witness ==
    /\ fn_call.fn = "upsert_user_profile"
    /\ ~users[fn_call.profile.args.telegram_id].is_active
    /\ users[fn_call.profile.args.telegram_id].name = "Veli Ali"
    /\ users[fn_call.profile.args.telegram_id].fin = "QQQ1111"

(* A row that makes the code of a profession valid on day d. *)
ValidOn(g, profession, code, d) ==
    /\ g.profession = profession /\ g.code = code
    /\ g.date <= d
    /\ (g.expires_at = NULL \/ g.expires_at >= d)
    /\ g.is_active

CodeValidCalled == fn_call.fn = "is_group_code_valid"

(* is_group_code_valid(profession, code, d) is true exactly when the table *)
(* has a row of that profession and code dated d or earlier, expiring on d *)
(* or later or never, and active.                                          *)
CodeValidIffRow ==
    CodeValidCalled =>
        LET a == fn_call.code_valid.args
        IN  fn_call.code_valid.result <=>
              \E g \in group_codes : ValidOn(g, a.profession, a.code, a.on_date)

(* The code step moves to the name step only for a code that is valid for  *)
(* the chosen profession on the day the step is taken, Baku time.          *)
CodeStepOnlyValidToday ==
    [][ \A c \in Chats :
          fsm_state[c] = "code" /\ fsm_state'[c] = "name" =>
            \E g \in group_codes :
               ValidOn(g, fsm_data[c].profession, fsm_data'[c].code, BakuDate(now)) ]_vars

(* C28: is_group_code_valid(profession, code, d) is true exactly when a    *)
(* row of that profession and code exists with date <= d, expiry >= d or   *)
(* absent, and active; and the registration code step advances to the name *)
(* step only for an input for which that is true today.                    *)
C28_CodeValidToday == [](CodeValidIffRow) /\ CodeStepOnlyValidToday

CsvCalled == fn_call.fn = "generate_csv_report"

(* C29: the header row generate_csv_report writes is the same list of 15   *)
(* columns, the map-link column among them, for an empty dataset and for   *)
(* one with rows.                                                          *)
C29_SameHeader ==
    CsvCalled =>
        LET headers == fn_call.csv.result.headers
        IN  /\ Len(headers) = 15
            /\ \E i \in 1..Len(headers) : headers[i] = MAP_LINK_HEADER

(* The sessions the check-in of a reminder task created. *)
SessionOf(r) == {s \in sessions : s.user_id = r.user2_id /\ s.start_time = r.checkin_time}

(* C30: for every successful check-in at most one check-out reminder is    *)
(* sent, and only if the session that check-in created still has no end    *)
(* time 8 hours after the check-in; if that session was closed meanwhile   *)
(* or the task was cancelled, no reminder is sent.                         *)
C30_ReminderOnlyForOpenSession ==
    [][ /\ \A r \in reminders' :
             r.sent /\ r \notin reminders =>
               /\ now = r.checkin_time + REMINDER_WAIT_S
               /\ \E s \in SessionOf(r) : s.end_time = NULL
               /\ \A q \in reminders : q.sent => q.checkin_time # r.checkin_time
        /\ \A r \in reminders' : r.pc = "cancelled" => ~r.sent
        /\ \A s \in sessions' :
             Cardinality({r \in reminders' :
                            r.user2_id = s.user_id /\ r.checkin_time = s.start_time}) <= 1 ]_vars

(* A step in which the processing of a location update of chat c raised,   *)
(* or in which the except block of handle_location finished or was left.   *)
RaisedStep(c) ==
    /\ ev'.chat = c
    /\ ev'.handler \in LocationHandlers
    /\ ev'.outcome \in {ERROR_OUTCOME, "unhandled"}

OthersUntouched(c) ==
    \A d \in Chats \ {c} :
        /\ pending_action'[d] = pending_action[d]
        /\ {s \in sessions' : s.user_id = users2'[d] /\ users2'[d] # 0} = SessionsOf(d)

(* C31: if any step of processing a location update raises, the exception  *)
(* does not leave handle_location, the chat's pending action is removed    *)
(* when the handler ends, and the pending actions and sessions of every    *)
(* other chat are unchanged.                                               *)
C31_FailureIsolated ==
    [][\A c \in Workers :
          RaisedStep(c) =>
             /\ ev'.outcome # "unhandled"
             /\ Finished(ev') => pending_action'[c] = NoPending
             /\ OthersUntouched(c)]_vars

NoHandlerInProgress == \A c \in Chats : inflight[c] = {} /\ reg_inflight[c] = {}

(* The legacy attendance rows of chat c's profile for the date of session s. *)
MirrorRows(c, s) ==
    {a \in attendance : a.user_id = get_user_by_telegram_id(c).id /\ a.date = BakuDate(s.start_time)}

(* C32: whenever no handler is in progress, for every user with a legacy   *)
(* profile and every session of that user, the legacy attendance row for   *)
(* the session's start date exists with a check-in time, and it has a      *)
(* check-out time exactly when the session has an end time.                *)
C32_MirrorFollowsSessions ==
    NoHandlerInProgress =>
        \A c \in Chats : HasProfile(c) =>
            \A s \in SessionsOf(c) :
                /\ MirrorRows(c, s) # {}
                /\ \A a \in MirrorRows(c, s) :
                      /\ a.giris_time # NULL
                      /\ (a.cixis_time # NULL) <=> (s.end_time # NULL)

MirrorCalled == fn_call'.fn \in {"record_giris", "record_cixis"}

OneRowPerUserAndDate(table) ==
    \A a, b \in table : (a.user_id = b.user_id /\ a.date = b.date) => a = b

(* Every time a row of the table holds is still in that row afterwards. *)
TimesKept ==
    \A a \in attendance :
        /\ a.giris_time # NULL => \E b \in attendance' : b.id = a.id /\ b.giris_time = a.giris_time
        /\ a.cixis_time # NULL => \E b \in attendance' : b.id = a.id /\ b.cixis_time = a.cixis_time

(* The call repeats a record that the row of its user and date holds. *)
SecondCall ==
    LET a == fn_call'.mirror.args
        rows == {r \in attendance : r.user_id = a.user_id /\ r.date = a.date}
    IN  \/ fn_call'.fn = "record_giris" /\ \E r \in rows : r.giris_time # NULL
        \/ fn_call'.fn = "record_cixis" /\ \E r \in rows : r.cixis_time # NULL

(* C33: there is at most one legacy attendance row per (user, date); once  *)
(* such a row has a check-in time or a check-out time, no later            *)
(* record_giris or record_cixis call changes that time: the second call    *)
(* reports failure (returns false) and leaves the row unchanged.           *)
C33_MirrorRecordsOnce ==
    [][MirrorCalled =>
          /\ OneRowPerUserAndDate(attendance')
          /\ TimesKept
          /\ SecondCall => (fn_call'.mirror.result = "false" /\ attendance' = attendance)]_vars

GroupCodeFns == {"add_group_code", "set_group_code_active", "delete_group_code"}

SameTriple(g, a) == g.profession = a.profession /\ g.date = a.date /\ g.code = a.code

OneRowPerTriple(table) == \A g, h \in table : SameTriple(g, h) => g = h

(* C34: after any sequence of add, toggle and delete group-code operations *)
(* there is at most one row per (profession, date, code); adding a triple  *)
(* that already exists changes only that row's active flag and expiry,     *)
(* adding it twice with the same arguments gives the same state as adding  *)
(* it once, and rows with a different code for the same profession and     *)
(* date are left unchanged.                                                *)
C34_GroupCodeUpsert ==
    [][fn_call'.fn \in GroupCodeFns =>
          LET a == fn_call'.gcode.args
          IN  /\ OneRowPerTriple(group_codes')
              /\ fn_call'.fn = "add_group_code" =>
                   /\ \A g \in group_codes : SameTriple(g, a) =>
                         group_codes' = (group_codes \ {g}) \cup
                            {[g EXCEPT !.is_active = a.is_active,
                                       !.expires_at = GROUP_CODE_NO_EXPIRY_DATE]}
                   /\ (fn_call.fn = "add_group_code" /\ fn_call.gcode.args = a) =>
                         group_codes' = group_codes
                   /\ \A g \in group_codes :
                         (g.profession = a.profession /\ g.date = a.date /\ g.code # a.code) =>
                            g \in group_codes']_vars

(* The administrator's row of day 0 was added again, inactive, next to a   *)
(* second code of the same profession and day.                             *)
C34_Witness ==
    /\ fn_call.fn = "add_group_code"
    /\ fn_call.gcode.args = [profession |-> PROFESSIONS[1], date |-> 0, code |-> "K1", is_active |-> FALSE]
    /\ \E g \in group_codes : g.id = 1 /\ SameTriple(g, fn_call.gcode.args) /\ ~g.is_active
    /\ \E g \in group_codes : g.profession = PROFESSIONS[1] /\ g.date = 0 /\ g.code = "K2"

(* C35: with the networked backend, initialize_pool retries while the      *)
(* server is still starting or refuses connections: if the server accepts  *)
(* on attempt k <= 30 the call returns with the pool initialised, waiting  *)
(* at most 10 seconds between attempts; if all 30 attempts fail it raises  *)
(* the last connection error; a call when the pool is already initialised  *)
(* changes nothing.                                                        *)
C35_PoolRetries ==
    [][fn_call'.fn = "initialize_pool" =>
          LET a == fn_call'.pool.args
              r == fn_call'.pool.result
          IN  /\ a.pg_pool => (r.pg_pool /\ r.raised = "" /\ r.attempts = 0)
              /\ (~a.pg_pool /\ a.error \in RetriableErrors) =>
                    /\ a.accept_at <= POOL_ATTEMPTS =>
                          (r.pg_pool /\ r.raised = "" /\ r.attempts = a.accept_at)
                    /\ a.accept_at > POOL_ATTEMPTS =>
                          (~r.pg_pool /\ r.raised = a.error /\ r.attempts = POOL_ATTEMPTS)
                    /\ Len(r.sleeps) = r.attempts - (IF r.pg_pool THEN 1 ELSE 0)
                    /\ \A i \in 1..Len(r.sleeps) : r.sleeps[i] <= MAX_BACKOFF_DS]_vars

(* C36: acquire_single_instance_lock always terminates: after finding an   *)
(* existing marker whose recorded process is not alive it removes the      *)
(* marker and retries the exclusive creation at most once, returning false *)
(* if that retry also finds a marker (so it never removes a marker and     *)
(* calls itself a second time).                                            *)
C36_RetryOnce == \A p \in Procs : lock_proc[p].retried # "again"

(* C37: a session is created only for a chat identity that has a legacy    *)
(* profile (a completed registration gated by a valid access code) at the  *)
(* time of creation; a chat that cancelled or never completed registration *)
(* cannot obtain a session.                                                *)
C37_SessionNeedsProfile ==
    [][\A s \in Created :
          \E c \in Chats : users2'[c] = s.user_id /\ HasProfile(c)]_vars

(* The pair is a valid group code today, by the Baku date or by the        *)
(* server's date.                                                          *)
ValidNow(profession, code) ==
    \E g \in group_codes :
        \/ ValidOn(g, profession, code, BakuDate(now))
        \/ ValidOn(g, profession, code, SystemDate(now))

(* C38: every registration-log row is written for a (profession, code)     *)
(* pair that is a valid group code at the moment the row is written, under *)
(* any interleaving of the registrant's steps with the administrator's     *)
(* delete or re-add of that code.                                          *)
C38_RowForValidCode ==
    [][\A r \in registrations' \ registrations : ValidNow(r.profession, r.code)]_vars

(* C39: once a session has an end time, no later check-in, check-out or    *)
(* location update (including a second location update handled while the   *)
(* replies of the first are still being sent) changes its end time, end    *)
(* coordinates, duration or distance; only a cascading delete removes it.  *)
C39_ClosedSessionsStay ==
    [][\A s \in sessions : s.end_time # NULL =>
          \/ s \in sessions'
          \/ /\ ev'.handler = "delete_user_all"
             /\ s.user_id = users2[ev'.chat]
             /\ \A q \in sessions' : q.id # s.id]_vars

(* A second location update of the worker was handled while the replies of *)
(* the update that closed its session were still being sent.               *)
C39_Witness ==
    /\ ev.handler = "location_checkout" /\ ev.phase = "run" /\ ev.outcome # "closed"
    /\ \E k \in inflight[ev.chat] : k.handler = "location_checkout" /\ k.outcome = "closed"
    /\ \E s \in SessionsOf(ev.chat) : s.end_time = now

(* C40: for a text of at most 3,500 characters chunk_send yields exactly   *)
(* one message, equal to the text; only a text longer than the limit is    *)
(* split into several messages.                                            *)
C40_ShortTextOneMessage ==
    ChunksCalled =>
        LET text == fn_call.chunks.args.text
            result == fn_call.chunks.result
        IN  /\ text.len <= TG_CHUNK_LIMIT => result = <<[from |-> 0, to |-> text.len]>>
            /\ Len(result) > 1 => text.len > TG_CHUNK_LIMIT

TypeOK == now \in Instants

====
